---- MODULE Spec2Model ----
(***************************************************************************)
(* A model of the event pipeline of src/src/App.jsx: the date normalizer,  *)
(* the time-of-day parser, the identifier slug, the filter stage of        *)
(* HomeView and groupEventsByDate, and of the App around them: its state,  *)
(* the handlers of its buttons and inputs, and the memos of HomeView.      *)
(*                                                                         *)
(* pc is "render" before the first render of HomeView, "shown" after it,   *)
(* "crashed" when the render raised.  events is the element sequence of    *)
(* the events import and eventsKind the kind of value the import holds.    *)
(* filteredEvents and grouped are the two memos of HomeView;               *)
(* filteredIsEvents tells whether the first memo holds the events array    *)
(* itself.  arg and ret are the input and the result of a function called  *)
(* on its own.                                                             *)
(*                                                                         *)
(* The maintainer service of src/scripts/dev-writer.mjs is modelled next   *)
(* to the app: disk holds the three JSON files and the flyer file names,   *)
(* response the answer to the last request, inflight the requests whose    *)
(* handler is at an await.                                                 *)
(*                                                                         *)
(* A JavaScript string is a sequence of one-character strings, so that     *)
(* trimming, pattern matching, padding, case folding and comparison are    *)
(* computed character by character, as the code computes them.  Genre      *)
(* labels are the one exception: the code only tests them for equality     *)
(* (Set.has), so they are atomic strings.                                  *)
(***************************************************************************)
EXTENDS Integers, Sequences, FiniteSets, TLC

VARIABLES pc, events, eventsKind, now, activeTab, filter, jumpDate, selectedGenres,
          searchQuery, isGenreOpen, filteredEvents, filteredIsEvents, grouped,
          arg, ret, disk, response, inflight

vars == <<pc, events, eventsKind, now, activeTab, filter, jumpDate, selectedGenres,
          searchQuery, isGenreOpen, filteredEvents, filteredIsEvents, grouped,
          arg, ret, disk, response, inflight>>

\* The variables of the app, and those of the maintainer service.
appVars == <<pc, events, eventsKind, now, activeTab, filter, jumpDate, selectedGenres,
             searchQuery, isGenreOpen, filteredEvents, filteredIsEvents, grouped,
             arg, ret>>

svcVars == <<disk, response, inflight>>

(***************************************************************************)
(* JavaScript values                                                       *)
(***************************************************************************)
Undefined == [t |-> "undefined"]

JsNull == [t |-> "null"]

Str(s) == [t |-> "string", v |-> s]

Num(n) == [t |-> "number", v |-> n]

Arr(a) == [t |-> "array", v |-> a]

POSITIVE_INFINITY == [t |-> "Infinity"]

NEGATIVE_INFINITY == [t |-> "-Infinity"]

NaN == [t |-> "NaN"]

(***************************************************************************)
(* Characters.  AsciiLow lists the characters of code units 32 (the       *)
(* space) to 95 in order, AsciiHigh those of code units 97 ("a") to 126.   *)
(***************************************************************************)
AsciiLow ==
  << " ", "!", "\"", "#", "$", "%", "&", "'", "(", ")", "*", "+", ",", "-", ".", "/",
     "0", "1", "2", "3", "4", "5", "6", "7", "8", "9", ":", ";", "<", "=", ">", "?",
     "@", "A", "B", "C", "D", "E", "F", "G", "H", "I", "J", "K", "L", "M", "N", "O",
     "P", "Q", "R", "S", "T", "U", "V", "W", "X", "Y", "Z", "[", "\\", "]", "^", "_" >>

AsciiHigh ==
  << "a", "b", "c", "d", "e", "f", "g", "h", "i", "j", "k", "l", "m", "n", "o",
     "p", "q", "r", "s", "t", "u", "v", "w", "x", "y", "z", "{", "|", "}", "~" >>

Digits == <<"0", "1", "2", "3", "4", "5", "6", "7", "8", "9">>

UpperCase == <<"A", "B", "C", "D", "E", "F", "G", "H", "I", "J", "K", "L", "M",
               "N", "O", "P", "Q", "R", "S", "T", "U", "V", "W", "X", "Y", "Z">>

LowerCase == <<"a", "b", "c", "d", "e", "f", "g", "h", "i", "j", "k", "l", "m",
               "n", "o", "p", "q", "r", "s", "t", "u", "v", "w", "x", "y", "z">>

Range(s) == {s[i] : i \in DOMAIN s}

IndexOf(c, table) == CHOOSE i \in DOMAIN table : table[i] = c

DigitSet == Range(Digits)

UpperCaseSet == Range(UpperCase)

LowerCaseSet == Range(LowerCase)

\* The code unit of each character (String.prototype.charCodeAt).
CodeUnits ==
  [c \in {"\t"} \cup Range(AsciiLow) \cup Range(AsciiHigh) |->
     IF c = "\t" THEN 9
     ELSE IF c \in Range(AsciiLow) THEN 31 + IndexOf(c, AsciiLow)
     ELSE 96 + IndexOf(c, AsciiHigh)]

CharCode(c) == CodeUnits[c]

\* \d of a JavaScript regular expression.
IsDigit(c) == c \in DigitSet

\* The characters String.prototype.trim strips and \s matches.
IsSpace(c) == c \in {" ", "\t"}

AllDigits(s) == \A i \in DOMAIN s : IsDigit(s[i])

AllSpaces(s) == \A i \in DOMAIN s : IsSpace(s[i])

\* [a-z0-9] of slugifyId's second pattern.
IsSlugChar(c) == c \in LowerCaseSet \/ IsDigit(c)

(***************************************************************************)
(* String operations                                                       *)
(***************************************************************************)
\* String.prototype.toLowerCase, one character.
LowerOf == [c \in UpperCaseSet |-> LowerCase[IndexOf(c, UpperCase)]]

LowerChar(c) == IF c \in UpperCaseSet THEN LowerOf[c] ELSE c

toLowerCase(s) == [i \in DOMAIN s |-> LowerChar(s[i])]

RECURSIVE TrimStart(_)
TrimStart(s) == IF s # <<>> /\ IsSpace(Head(s)) THEN TrimStart(Tail(s)) ELSE s

RECURSIVE TrimEnd(_)
TrimEnd(s) ==
  IF s # <<>> /\ IsSpace(s[Len(s)]) THEN TrimEnd(SubSeq(s, 1, Len(s) - 1)) ELSE s

\* String.prototype.trim
trim(s) == TrimEnd(TrimStart(s))

\* String.prototype.padStart with a one-character filler.
RECURSIVE padStart(_, _, _)
padStart(s, n, c) == IF Len(s) >= n THEN s ELSE padStart(<<c>> \o s, n, c)

\* String.prototype.includes
includes(s, q) ==
  \E i \in 1..(Len(s) - Len(q) + 1) : SubSeq(s, i, i + Len(q) - 1) = q

\* The < of two strings: the first differing code unit decides, a proper
\* prefix is less.
RECURSIVE StrLess(_, _)
StrLess(a, b) ==
  IF b = <<>> THEN FALSE
  ELSE IF a = <<>> THEN TRUE
  ELSE IF Head(a) # Head(b) THEN CharCode(Head(a)) < CharCode(Head(b))
  ELSE StrLess(Tail(a), Tail(b))

\* String(n) of a non-negative integer: its decimal digits.
RECURSIVE NatToString(_)
NatToString(n) ==
  IF n < 10 THEN <<Digits[n + 1]>>
  ELSE NatToString(n \div 10) \o <<Digits[(n % 10) + 1]>>

DigitValue == [c \in DigitSet |-> IndexOf(c, Digits) - 1]

\* Number(s) of a string of decimal digits.
RECURSIVE DigitsToNumber(_)
DigitsToNumber(s) ==
  IF s = <<>> THEN 0
  ELSE 10 * DigitsToNumber(SubSeq(s, 1, Len(s) - 1)) + DigitValue[s[Len(s)]]

\* Truthiness of a value (the operand of ||, ! and &&).
Truthy(x) ==
  CASE x.t = "undefined" -> FALSE
    [] x.t = "null" -> FALSE
    [] x.t = "NaN" -> FALSE
    [] x.t = "string" -> x.v # <<>>
    [] x.t = "number" -> x.v # 0
    [] OTHER -> TRUE

\* String(x || ""), for the values event fields hold: a string is itself, a
\* falsy value is the empty string, a number is its decimal digits.
StringOrEmpty(x) ==
  IF ~Truthy(x) THEN <<>>
  ELSE IF x.t = "string" THEN x.v
  ELSE IF x.t = "number" THEN NatToString(x.v)
  ELSE <<"[", "o", "b", "j", "e", "c", "t", "]">>

(***************************************************************************)
(* parseTimeToMinutes                                                      *)
(***************************************************************************)
\* Mutant: the minutes may have one digit.
TimeMatchesOneMinuteDigit(s) ==
  { m \in [h : 1..2, mm : {0, 2, 3}, sp : 0..Len(s), ap : {0, 2}] :
      /\ m.h + m.mm + m.sp + m.ap = Len(s)
      /\ AllDigits(SubSeq(s, 1, m.h))
      /\ m.mm > 0 => /\ s[m.h + 1] = ":"
                     /\ AllDigits(SubSeq(s, m.h + 2, m.h + m.mm))
      /\ AllSpaces(SubSeq(s, m.h + m.mm + 1, m.h + m.mm + m.sp))
      /\ m.ap = 2 => toLowerCase(SubSeq(s, Len(s) - 1, Len(s))) \in {<<"a", "m">>, <<"p", "m">>} }

\* The decompositions of s by /^(\d{1,2})(?::(\d{2}))?\s*(am|pm)?$/i: the
\* lengths of the hour, of the ":MM" part, of the white space and of the
\* am/pm suffix.  There is at most one.
TimeMatches(s) ==
  { m \in [h : 1..2, mm : {0, 3}, sp : 0..Len(s), ap : {0, 2}] :
      /\ m.h + m.mm + m.sp + m.ap = Len(s)
      /\ AllDigits(SubSeq(s, 1, m.h))
      /\ m.mm = 3 => /\ s[m.h + 1] = ":"
                     /\ AllDigits(SubSeq(s, m.h + 2, m.h + 3))
      /\ AllSpaces(SubSeq(s, m.h + m.mm + 1, m.h + m.mm + m.sp))
      /\ m.ap = 2 => toLowerCase(SubSeq(s, Len(s) - 1, Len(s))) \in {<<"a", "m">>, <<"p", "m">>} }

\* Mutant: 12 am is taken for noon.
ParseTrimmedTimeTwelveAmIsNoon(s) ==
  IF TimeMatches(s) = {} THEN POSITIVE_INFINITY
  ELSE
    LET m == CHOOSE x \in TimeMatches(s) : TRUE
        h0 == DigitsToNumber(SubSeq(s, 1, m.h))
        mins == IF m.mm = 3 THEN DigitsToNumber(SubSeq(s, m.h + 2, m.h + 3)) ELSE 0
        ampm == IF m.ap = 2 THEN toLowerCase(SubSeq(s, Len(s) - 1, Len(s))) ELSE <<>>
        h == IF ampm = <<"a", "m">> THEN h0
             ELSE IF ampm = <<"p", "m">> THEN (IF h0 = 12 THEN 12 ELSE h0 + 12)
             ELSE h0
    IN IF mins < 0 \/ mins > 59 THEN POSITIVE_INFINITY
       ELSE IF h0 < 0 \/ h0 > 23 THEN POSITIVE_INFINITY
       ELSE IF ampm # <<>> /\ (h0 < 1 \/ h0 > 12) THEN POSITIVE_INFINITY
       ELSE Num(h * 60 + mins)

\* Mutant: hour 24 passes the range check.
ParseTrimmedTimeHour24(s) ==
  IF TimeMatches(s) = {} THEN POSITIVE_INFINITY
  ELSE
    LET m == CHOOSE x \in TimeMatches(s) : TRUE
        h0 == DigitsToNumber(SubSeq(s, 1, m.h))
        mins == IF m.mm = 3 THEN DigitsToNumber(SubSeq(s, m.h + 2, m.h + 3)) ELSE 0
        ampm == IF m.ap = 2 THEN toLowerCase(SubSeq(s, Len(s) - 1, Len(s))) ELSE <<>>
        h == IF ampm = <<"a", "m">> THEN (IF h0 = 12 THEN 0 ELSE h0)
             ELSE IF ampm = <<"p", "m">> THEN (IF h0 = 12 THEN 12 ELSE h0 + 12)
             ELSE h0
    IN IF mins < 0 \/ mins > 59 THEN POSITIVE_INFINITY
       ELSE IF h0 < 0 \/ h0 > 24 THEN POSITIVE_INFINITY
       ELSE IF ampm # <<>> /\ (h0 < 1 \/ h0 > 12) THEN POSITIVE_INFINITY
       ELSE Num(h * 60 + mins)

\* The match and the range checks, on the trimmed, non-empty string.
ParseTrimmedTime(s) ==
  IF TimeMatches(s) = {} THEN POSITIVE_INFINITY
  ELSE
    LET m == CHOOSE x \in TimeMatches(s) : TRUE
        h0 == DigitsToNumber(SubSeq(s, 1, m.h))
        mins == IF m.mm = 3 THEN DigitsToNumber(SubSeq(s, m.h + 2, m.h + 3)) ELSE 0
        ampm == IF m.ap = 2 THEN toLowerCase(SubSeq(s, Len(s) - 1, Len(s))) ELSE <<>>
        h == IF ampm = <<"a", "m">> THEN (IF h0 = 12 THEN 0 ELSE h0)
             ELSE IF ampm = <<"p", "m">> THEN (IF h0 = 12 THEN 12 ELSE h0 + 12)
             ELSE h0
    IN IF mins < 0 \/ mins > 59 THEN POSITIVE_INFINITY
       ELSE IF h0 < 0 \/ h0 > 23 THEN POSITIVE_INFINITY
       ELSE IF ampm # <<>> /\ (h0 < 1 \/ h0 > 12) THEN POSITIVE_INFINITY
       ELSE Num(h * 60 + mins)

\* Mutant: an empty time counts as midnight instead of "Time TBA".
parseTimeToMinutesEmptyIsMidnight(timeStr) ==
  LET s == trim(StringOrEmpty(timeStr))
  IN IF s = <<>> THEN Num(0) ELSE ParseTrimmedTime(s)

parseTimeToMinutes(timeStr) ==
  LET s == trim(StringOrEmpty(timeStr))
  IN IF s = <<>> THEN POSITIVE_INFINITY ELSE ParseTrimmedTime(s)

(***************************************************************************)
(* getTodayYMD and normalizeDateToYMD                                      *)
(***************************************************************************)
\* clock is the local date of new Date(): year (getFullYear), month
\* (getMonth, 0 = January) and date (getDate).
getTodayYMD(clock) ==
  LET y == NatToString(clock.year)
      m == padStart(NatToString(clock.month + 1), 2, "0")
      d == padStart(NatToString(clock.date), 2, "0")
  IN y \o <<"-">> \o m \o <<"-">> \o d

\* Mutant: the canonical shape with a calendar check of month and day.
IsoMatchCalendar(s) ==
  /\ Len(s) = 10
  /\ AllDigits(SubSeq(s, 1, 4))
  /\ s[5] = "-"
  /\ AllDigits(SubSeq(s, 6, 7))
  /\ s[8] = "-"
  /\ AllDigits(SubSeq(s, 9, 10))
  /\ DigitsToNumber(SubSeq(s, 6, 7)) \in 1..12
  /\ DigitsToNumber(SubSeq(s, 9, 10)) \in 1..31

\* /^(\d{4})-(\d{2})-(\d{2})$/
IsoMatch(s) ==
  /\ Len(s) = 10
  /\ AllDigits(SubSeq(s, 1, 4))
  /\ s[5] = "-"
  /\ AllDigits(SubSeq(s, 6, 7))
  /\ s[8] = "-"
  /\ AllDigits(SubSeq(s, 9, 10))

\* The decompositions of s by /^(\d{1,2})\/(\d{1,2})\/(\d{4})$/: the lengths
\* of the month and of the day.  There is at most one.
UsMatches(s) ==
  { m \in [mm : 1..2, dd : 1..2] :
      /\ Len(s) = m.mm + 1 + m.dd + 1 + 4
      /\ AllDigits(SubSeq(s, 1, m.mm))
      /\ s[m.mm + 1] = "/"
      /\ AllDigits(SubSeq(s, m.mm + 2, m.mm + 1 + m.dd))
      /\ s[m.mm + m.dd + 2] = "/"
      /\ AllDigits(SubSeq(s, m.mm + m.dd + 3, Len(s))) }

\* Mutant: the month and the day are not padded.
normalizeDateToYMDUnpadded(input) ==
  LET s == trim(StringOrEmpty(input))
  IN IF s = <<>> THEN JsNull
     ELSE IF IsoMatch(s) THEN Str(s)
     ELSE IF UsMatches(s) # {} THEN
       LET us == CHOOSE x \in UsMatches(s) : TRUE
           mm == SubSeq(s, 1, us.mm)
           dd == SubSeq(s, us.mm + 2, us.mm + 1 + us.dd)
           yyyy == SubSeq(s, us.mm + us.dd + 3, Len(s))
       IN Str(yyyy \o <<"-">> \o mm \o <<"-">> \o dd)
     ELSE JsNull

\* Mutant: an input of neither shape is handed back as it is.
normalizeDateToYMDEcho(input) ==
  LET s == trim(StringOrEmpty(input))
  IN IF s = <<>> THEN JsNull
     ELSE IF IsoMatch(s) THEN Str(s)
     ELSE IF UsMatches(s) # {} THEN
       LET us == CHOOSE x \in UsMatches(s) : TRUE
           mm == padStart(SubSeq(s, 1, us.mm), 2, "0")
           dd == padStart(SubSeq(s, us.mm + 2, us.mm + 1 + us.dd), 2, "0")
           yyyy == SubSeq(s, us.mm + us.dd + 3, Len(s))
       IN Str(yyyy \o <<"-">> \o mm \o <<"-">> \o dd)
     ELSE Str(s)

normalizeDateToYMD(input) ==
  LET s == trim(StringOrEmpty(input))
  IN IF s = <<>> THEN JsNull
     ELSE IF IsoMatch(s) THEN Str(s)
     ELSE IF UsMatches(s) # {} THEN
       LET us == CHOOSE x \in UsMatches(s) : TRUE
           mm == padStart(SubSeq(s, 1, us.mm), 2, "0")
           dd == padStart(SubSeq(s, us.mm + 2, us.mm + 1 + us.dd), 2, "0")
           yyyy == SubSeq(s, us.mm + us.dd + 3, Len(s))
       IN Str(yyyy \o <<"-">> \o mm \o <<"-">> \o dd)
     ELSE JsNull

(***************************************************************************)
(* slugifyId                                                               *)
(***************************************************************************)
\* .replace(/&/g, "and")
RECURSIVE ReplaceAmpersands(_)
ReplaceAmpersands(s) ==
  IF s = <<>> THEN <<>>
  ELSE (IF Head(s) = "&" THEN <<"a", "n", "d">> ELSE <<Head(s)>>)
         \o ReplaceAmpersands(Tail(s))

RECURSIVE DropNonSlugChars(_)
DropNonSlugChars(s) ==
  IF s # <<>> /\ ~IsSlugChar(Head(s)) THEN DropNonSlugChars(Tail(s)) ELSE s

\* .replace(/[^a-z0-9]+/g, "-"): every maximal run of other characters
\* becomes one "-".
RECURSIVE CollapseNonSlugRuns(_)
CollapseNonSlugRuns(s) ==
  IF s = <<>> THEN <<>>
  ELSE IF IsSlugChar(Head(s)) THEN <<Head(s)>> \o CollapseNonSlugRuns(Tail(s))
  ELSE <<"-">> \o CollapseNonSlugRuns(DropNonSlugChars(s))

RECURSIVE StripLeadingDashes(_)
StripLeadingDashes(s) ==
  IF s # <<>> /\ Head(s) = "-" THEN StripLeadingDashes(Tail(s)) ELSE s

RECURSIVE StripTrailingDashes(_)
StripTrailingDashes(s) ==
  IF s # <<>> /\ s[Len(s)] = "-"
  THEN StripTrailingDashes(SubSeq(s, 1, Len(s) - 1))
  ELSE s

slugifyId(input) ==
  StripTrailingDashes(StripLeadingDashes(
    CollapseNonSlugRuns(ReplaceAmpersands(toLowerCase(trim(StringOrEmpty(input)))))))

(***************************************************************************)
(* String.prototype.localeCompare, for strings of white space, colons,     *)
(* digits and letters, in the root collation: white space before the colon *)
(* before digits before letters, letters in alphabetical order whatever    *)
(* their case, and between strings that differ in case only, the one with  *)
(* the lower-case letter at the first difference first.  The result is -1, *)
(* 0 or 1.                                                                 *)
(***************************************************************************)
CollationOrder == <<"\t", " ", ":">> \o Digits \o LowerCase

PrimaryWeights == [c \in Range(CollationOrder) |-> IndexOf(c, CollationOrder)]

PrimaryWeight(c) == PrimaryWeights[LowerChar(c)]

RECURSIVE PrimaryCompare(_, _)
PrimaryCompare(a, b) ==
  IF a = <<>> /\ b = <<>> THEN 0
  ELSE IF a = <<>> THEN -1
  ELSE IF b = <<>> THEN 1
  ELSE IF PrimaryWeight(Head(a)) < PrimaryWeight(Head(b)) THEN -1
  ELSE IF PrimaryWeight(Head(a)) > PrimaryWeight(Head(b)) THEN 1
  ELSE PrimaryCompare(Tail(a), Tail(b))

\* For two strings of equal primary weights.
RECURSIVE CaseCompare(_, _)
CaseCompare(a, b) ==
  IF a = <<>> THEN 0
  ELSE IF Head(a) = Head(b) THEN CaseCompare(Tail(a), Tail(b))
  ELSE IF Head(a) \in LowerCaseSet THEN -1
  ELSE 1

localeCompare(a, b) ==
  IF PrimaryCompare(a, b) # 0 THEN PrimaryCompare(a, b) ELSE CaseCompare(a, b)

(***************************************************************************)
(* Numbers: the subtraction and the signs the sort comparator uses.        *)
(***************************************************************************)
Subtract(x, y) ==
  CASE x.t = "number" /\ y.t = "number" -> Num(x.v - y.v)
    [] x.t = "number" /\ y.t = "Infinity" -> NEGATIVE_INFINITY
    [] x.t = "Infinity" /\ y.t = "number" -> POSITIVE_INFINITY
    [] OTHER -> NaN

IsNegative(x) == x.t = "-Infinity" \/ (x.t = "number" /\ x.v < 0)

\* a !== b
StrictNotEquals(a, b) == a.t = "NaN" \/ b.t = "NaN" \/ a.t = "array" \/ a # b

(***************************************************************************)
(* groupEventsByDate                                                       *)
(***************************************************************************)
\* The Map of the grouping: its entries <<key, list>> in insertion order.
MapHas(groups, key) == \E i \in DOMAIN groups : groups[i].key = key

MapGet(groups, key) == groups[CHOOSE i \in DOMAIN groups : groups[i].key = key].list

\* Mutant: the list of a key holds the last event pushed only.
MapPushLastOnly(groups, key, e) ==
  IF MapHas(groups, key)
  THEN [i \in DOMAIN groups |->
          IF groups[i].key = key THEN [key |-> key, list |-> <<e>>] ELSE groups[i]]
  ELSE Append(groups, [key |-> key, list |-> <<e>>])

MapPush(groups, key, e) ==
  IF MapHas(groups, key)
  THEN [i \in DOMAIN groups |->
          IF groups[i].key = key
          THEN [key |-> key, list |-> Append(groups[i].list, e)]
          ELSE groups[i]]
  ELSE Append(groups, [key |-> key, list |-> <<e>>])

\* Mutant: <= instead of <, so that an event dated today is dropped.
KeepsEventAfterToday(e, today) ==
  LET dateKey == normalizeDateToYMD(e.date)
  IN IF ~Truthy(dateKey) THEN FALSE
     ELSE IF ~StrLess(today, dateKey.v) THEN FALSE
     ELSE TRUE

\* Mutant: no exclusion of past dates.
KeepsEventAnyDate(e, today) == Truthy(normalizeDateToYMD(e.date))

\* Whether the loop keeps event e: its date normalizes and is not before
\* today.
KeepsEvent(e, today) ==
  LET dateKey == normalizeDateToYMD(e.date)
  IN IF ~Truthy(dateKey) THEN FALSE
     ELSE IF StrLess(dateKey.v, today) THEN FALSE
     ELSE TRUE

\* The for-of loop over eventList, from the Map built so far.
RECURSIVE BucketEvents(_, _, _)
BucketEvents(eventList, today, groups) ==
  IF eventList = <<>> THEN groups
  ELSE LET e == Head(eventList)
       IN IF KeepsEvent(e, today)
          THEN BucketEvents(Tail(eventList), today,
                            MapPush(groups, normalizeDateToYMD(e.date).v, e))
          ELSE BucketEvents(Tail(eventList), today, groups)

\* (a, b) => a < b ? -1 : a > b ? 1 : 0
DateCompare(a, b) == IF StrLess(a, b) THEN -1 ELSE IF StrLess(b, a) THEN 1 ELSE 0

\* Array.prototype.sort is a stable sort: an element goes before the first
\* one the comparator puts it strictly before.
RECURSIVE InsertDate(_, _)
InsertDate(sorted, d) ==
  IF sorted = <<>> THEN <<d>>
  ELSE IF DateCompare(d, Head(sorted)) < 0 THEN <<d>> \o sorted
  ELSE <<Head(sorted)>> \o InsertDate(Tail(sorted), d)

\* Mutant: the keys stay in insertion order.
SortDatesInsertionOrder(dates) == dates

RECURSIVE SortDates(_)
SortDates(dates) ==
  IF dates = <<>> THEN <<>>
  ELSE InsertDate(SortDates(SubSeq(dates, 1, Len(dates) - 1)), dates[Len(dates)])

\* Mutant: no tie-break by title.
EventCompareTimeOnly(a, b) ==
  LET ta == parseTimeToMinutes(a.time)
      tb == parseTimeToMinutes(b.time)
  IN IF StrictNotEquals(ta, tb) THEN Subtract(ta, tb) ELSE Num(0)

\* The comparator of the events of one date.
EventCompare(a, b) ==
  LET ta == parseTimeToMinutes(a.time)
      tb == parseTimeToMinutes(b.time)
  IN IF StrictNotEquals(ta, tb) THEN Subtract(ta, tb)
     ELSE Num(localeCompare(StringOrEmpty(a.title), StringOrEmpty(b.title)))

\* Mutant: an event is put before the events it ties with.
RECURSIVE InsertEventBeforeTies(_, _)
InsertEventBeforeTies(sorted, e) ==
  IF sorted = <<>> THEN <<e>>
  ELSE IF ~IsNegative(EventCompare(Head(sorted), e)) THEN <<e>> \o sorted
  ELSE <<Head(sorted)>> \o InsertEventBeforeTies(Tail(sorted), e)

RECURSIVE InsertEvent(_, _)
InsertEvent(sorted, e) ==
  IF sorted = <<>> THEN <<e>>
  ELSE IF IsNegative(EventCompare(e, Head(sorted))) THEN <<e>> \o sorted
  ELSE <<Head(sorted)>> \o InsertEvent(Tail(sorted), e)

RECURSIVE SortEvents(_)
SortEvents(list) ==
  IF list = <<>> THEN <<>>
  ELSE InsertEvent(SortEvents(SubSeq(list, 1, Len(list) - 1)), list[Len(list)])

groupEventsByDate(eventList, clock) ==
  LET today == getTodayYMD(clock)
      groups == BucketEvents(eventList, today, <<>>)
      dates == SortDates([i \in DOMAIN groups |-> groups[i].key])
  IN [i \in DOMAIN dates |->
        [date |-> dates[i], events |-> SortEvents(MapGet(groups, dates[i]))]]

(***************************************************************************)
(* The filter stage of HomeView                                            *)
(***************************************************************************)
GENRES ==
  << "Alternative", "Blues", "Bluegrass", "Classical", "Country", "Electronic",
     "Funk", "Hip Hop", "Indie", "Jazz", "Latin", "Metal", "Pop", "Punk",
     "Reggae", "Rock", "R & B" >>

\* A Set of genre labels, or a value that is no Set.
GenreSet(items) == [isSet |-> TRUE, items |-> items]

NotASet == [isSet |-> FALSE, items |-> {}]

\* The venue/partner filter: null, or an object {type, id}.
FilterOf(type, id) == [t |-> "object", type |-> type, id |-> id]

\* filter?.type === type && filter?.id
FilterActive(flt, type) == flt.t = "object" /\ flt.type = type /\ Truthy(flt.id)

\* Array.isArray(x) ? x : []
ArrayOrEmpty(x) == IF x.t = "array" THEN x.v ELSE <<>>

MatchesVenue(e, flt) == ~StrictNotEquals(e.venueId, flt.id)

\* Mutant: the partner ids are compared as written, not as slugs.
MatchesPartnerRawId(e, flt) ==
  LET ids == ArrayOrEmpty(e.partnerIds)
  IN \E i \in DOMAIN ids : ids[i] = flt.id

MatchesPartner(e, flt) ==
  LET want == slugifyId(flt.id)
      ids == ArrayOrEmpty(e.partnerIds)
  IN \E i \in DOMAIN ids : slugifyId(ids[i]) = want

\* Mutant: every genre of the event must be selected.
MatchesGenresEvery(e, genres) ==
  LET gs == ArrayOrEmpty(e.genres)
  IN gs # <<>> /\ \A i \in DOMAIN gs : gs[i] \in genres.items

MatchesGenres(e, genres) ==
  LET gs == ArrayOrEmpty(e.genres)
  IN \E i \in DOMAIN gs : gs[i] \in genres.items

\* Mutant: the title is not lower-cased.
MatchesSearchCaseSensitive(e, q) == includes(StringOrEmpty(e.title), q)

MatchesSearch(e, q) == includes(toLowerCase(StringOrEmpty(e.title)), q)

\* Mutant: the full selection filters by genre like any other selection.
computeFilteredEventsAlwaysByGenre(evts, flt, genres, query) ==
  LET byVenue ==
        IF FilterActive(flt, "venue")
        THEN SelectSeq(evts, LAMBDA e : MatchesVenue(e, flt))
        ELSE evts
      byPartner ==
        IF FilterActive(flt, "partner")
        THEN SelectSeq(byVenue, LAMBDA e : MatchesPartner(e, flt))
        ELSE byVenue
      byGenre ==
        IF genres.isSet
        THEN SelectSeq(byPartner, LAMBDA e : MatchesGenres(e, genres))
        ELSE byPartner
      q == toLowerCase(trim(StringOrEmpty(query)))
  IN IF genres.isSet /\ Cardinality(genres.items) = 0 THEN <<>>
     ELSE IF q # <<>> THEN SelectSeq(byGenre, LAMBDA e : MatchesSearch(e, q))
     ELSE byGenre

\* The callback of the filteredEvents memo.
computeFilteredEvents(evts, flt, genres, query) ==
  LET byVenue ==
        IF FilterActive(flt, "venue")
        THEN SelectSeq(evts, LAMBDA e : MatchesVenue(e, flt))
        ELSE evts
      byPartner ==
        IF FilterActive(flt, "partner")
        THEN SelectSeq(byVenue, LAMBDA e : MatchesPartner(e, flt))
        ELSE byVenue
      byGenre ==
        IF genres.isSet /\ Cardinality(genres.items) # Len(GENRES)
        THEN SelectSeq(byPartner, LAMBDA e : MatchesGenres(e, genres))
        ELSE byPartner
      q == toLowerCase(trim(StringOrEmpty(query)))
  IN IF genres.isSet /\ Cardinality(genres.items) = 0 THEN <<>>
     ELSE IF q # <<>> THEN SelectSeq(byGenre, LAMBDA e : MatchesSearch(e, q))
     ELSE byGenre

\* Whether the memo callback hands back the events collection itself: no
\* filter step ran and the early return for an empty selection was not taken.
ReturnsEventsItself(flt, genres, query) ==
  /\ ~FilterActive(flt, "venue")
  /\ ~FilterActive(flt, "partner")
  /\ ~(genres.isSet /\ Cardinality(genres.items) # Len(GENRES))
  /\ toLowerCase(trim(StringOrEmpty(query))) = <<>>

(***************************************************************************)
(* Exceptions.  kind is the kind of value the events import holds: "array" *)
(* or "undefined", "null", "object"; evts is its element sequence, <<>>    *)
(* when it is no array.  list.filter, for...of and x.some raise a          *)
(* TypeError when list, the iterated value or x is no array.               *)
(***************************************************************************)
CallThrows(x) == x.t # "array"

\* Mutant: the value is used without the Array.isArray test.
GuardedArrayUnguarded(x) == x

\* Array.isArray(x) ? x : [], as a value.
GuardedArray(x) == IF x.t = "array" THEN x ELSE Arr(<<>>)

\* Whether the memo callback of filteredEvents raises.
computeFilteredEventsThrows(kind, evts, flt, genres, query) ==
  LET byVenue ==
        IF FilterActive(flt, "venue")
        THEN SelectSeq(evts, LAMBDA e : MatchesVenue(e, flt))
        ELSE evts
      byPartner ==
        IF FilterActive(flt, "partner")
        THEN SelectSeq(byVenue, LAMBDA e : MatchesPartner(e, flt))
        ELSE byVenue
      q == toLowerCase(trim(StringOrEmpty(query)))
  IN \/ FilterActive(flt, "venue") /\ kind # "array"
     \/ /\ FilterActive(flt, "partner")
        /\ \/ kind # "array"
           \/ \E i \in DOMAIN byVenue : CallThrows(GuardedArray(byVenue[i].partnerIds))
     \/ /\ genres.isSet
        /\ Cardinality(genres.items) # 0
        /\ Cardinality(genres.items) # Len(GENRES)
        /\ \/ kind # "array"
           \/ \E i \in DOMAIN byPartner : CallThrows(GuardedArray(byPartner[i].genres))
     \/ /\ ~(genres.isSet /\ Cardinality(genres.items) = 0)
        /\ q # <<>>
        /\ kind # "array"

\* Whether groupEventsByDate raises on the value of the filteredEvents memo:
\* the events collection itself when no step ran, an array otherwise.
groupEventsByDateThrows(kind, flt, genres, query) ==
  ReturnsEventsItself(flt, genres, query) /\ kind # "array"

RenderThrows(kind, evts, flt, genres, query) ==
  \/ computeFilteredEventsThrows(kind, evts, flt, genres, query)
  \/ groupEventsByDateThrows(kind, flt, genres, query)

(***************************************************************************)
(* Inputs: the event records, clocks and filter states the model runs the  *)
(* pipeline on.                                                            *)
(***************************************************************************)
\* The maintainer service is not running.
ServiceIdle ==
  /\ disk = [events |-> <<>>, venues |-> <<>>, partners |-> <<>>, flyers |-> <<>>]
  /\ response = Undefined
  /\ inflight = <<>>

MaxEvents == 3

MaxFilterEvents == 2

Event(date, time, title, venueId, partnerIds, genres) ==
  [date |-> date, time |-> time, title |-> title, venueId |-> venueId,
   partnerIds |-> partnerIds, genres |-> genres]

\* {date: "2025-03-01", time: "7 PM", title: "A"}
EventA == Event(Str(<<"2", "0", "2", "5", "-", "0", "3", "-", "0", "1">>), Str(<<"7", " ", "P", "M">>), Str(<<"A">>), Undefined, Undefined, Undefined)

\* {date: "01/02/2025", time: "19:00", title: "B"}
EventB == Event(Str(<<"0", "1", "/", "0", "2", "/", "2", "0", "2", "5">>), Str(<<"1", "9", ":", "0", "0">>), Str(<<"B">>), Undefined, Undefined, Undefined)

\* {date: "not-a-date", title: "C"}
EventC == Event(Str(<<"n", "o", "t", "-", "a", "-", "d", "a", "t", "e">>), Undefined, Str(<<"C">>), Undefined, Undefined, Undefined)

\* {date: "3/1/2025", time: "7:00 PM", title: "Zebra", venueId: "v1",
\*  partnerIds: ["r-and-b-club"], genres: ["Rock"]}
EventZebra ==
  Event(Str(<<"3", "/", "1", "/", "2", "0", "2", "5">>), Str(<<"7", ":", "0", "0", " ", "P", "M">>), Str(<<"Z", "e", "b", "r", "a">>), Str(<<"v", "1">>),
        Arr(<<Str(<<"r", "-", "a", "n", "d", "-", "b", "-", "c", "l", "u", "b">>)>>), Arr(<<"Rock">>))

\* {date: "2025-03-01", time: "7:00 PM", title: "Apple", venueId: "v2",
\*  partnerIds: ["x", " R & B Club"], genres: ["Jazz", "Polka"]}
EventApple ==
  Event(Str(<<"2", "0", "2", "5", "-", "0", "3", "-", "0", "1">>), Str(<<"7", ":", "0", "0", " ", "P", "M">>), Str(<<"A", "p", "p", "l", "e">>), Str(<<"v", "2">>),
        Arr(<<Str(<<"x">>), Str(<<" ", "R", " ", "&", " ", "B", " ", "C", "l", "u", "b">>)>>), Arr(<<"Jazz", "Polka">>))

\* {date: " 2025-03-02 ", time: "25:00", venueId: "v1",
\*  partnerIds: ["r&b club"], genres: []}: no title, a time out of range, a
\* date with white space around it.
EventLate ==
  Event(Str(<<" ", "2", "0", "2", "5", "-", "0", "3", "-", "0", "2", " ">>), Str(<<"2", "5", ":", "0", "0">>), Undefined, Str(<<"v", "1">>),
        Arr(<<Str(<<"r", "&", "b", " ", "c", "l", "u", "b">>)>>), Arr(<<>>))

\* {date: "2025-03-01", time: "13 PM", title: "apple v1",
\*  partnerIds: "r-and-b-club", genres: "Rock"}: a 12-hour time out of range;
\* partnerIds and genres that are no arrays.
EventTba ==
  Event(Str(<<"2", "0", "2", "5", "-", "0", "3", "-", "0", "1">>), Str(<<"1", "3", " ", "P", "M">>), Str(<<"a", "p", "p", "l", "e", " ", "v", "1">>), Undefined,
        Str(<<"r", "-", "a", "n", "d", "-", "b", "-", "c", "l", "u", "b">>), Str(<<"R", "o", "c", "k">>))

\* {date: "2025-03-01", time: "", title: "Apple", venueId: "v2",
\*  partnerIds: [], genres: ["Rock", "Jazz"]}: an empty time.
EventEmptyTime ==
  Event(Str(<<"2", "0", "2", "5", "-", "0", "3", "-", "0", "1">>), Str(<<>>), Str(<<"A", "p", "p", "l", "e">>), Str(<<"v", "2">>), Arr(<<>>), Arr(<<"Rock", "Jazz">>))

\* {date: "2025-03-01", time: "19:00", title: "Apple"}: the time and title of
\* EventApple, written differently, and nothing else.
EventTie ==
  Event(Str(<<"2", "0", "2", "5", "-", "0", "3", "-", "0", "1">>), Str(<<"1", "9", ":", "0", "0">>), Str(<<"A", "p", "p", "l", "e">>), Undefined, Undefined, Undefined)

\* {}: every field missing.
EventBare == Event(Undefined, Undefined, Undefined, Undefined, Undefined, Undefined)

EventPool ==
  {EventA, EventB, EventC, EventZebra, EventApple, EventLate, EventTba, EventEmptyTime,
   EventTie, EventBare}

\* What the events import holds when it is no array.
OtherEventsKinds == {"undefined", "null", "object"}

\* The event lists of at most n events.
EventLists(n) == UNION {[1..k -> EventPool] : k \in 0..n}

\* The local dates the clock shows: 1 and 2 March 2025, 2 January 2025.
Clocks ==
  { [year |-> 2025, month |-> 2, date |-> 1],
    [year |-> 2025, month |-> 2, date |-> 2],
    [year |-> 2025, month |-> 0, date |-> 2] }

AllGenres == GenreSet({GENRES[i] : i \in DOMAIN GENRES})

\* No filter, the venue "v1", a venue filter without id, the partner
\* "R & B Club".
FilterInputs ==
  { JsNull,
    FilterOf("venue", Str(<<"v", "1">>)),
    FilterOf("venue", Str(<<>>)),
    FilterOf("partner", Str(<<"R", " ", "&", " ", "B", " ", "C", "l", "u", "b">>)) }

GenreInputs ==
  { AllGenres, GenreSet({}), GenreSet({"Rock"}), GenreSet({"Jazz", "Blues"}), NotASet }

\* "", "  ", " Ap", "v1" and an absent search string.
SearchInputs == { Str(<<>>), Str(<<" ", " ">>), Str(<<" ", "A", "p">>), Str(<<"v", "1">>), Undefined }

(***************************************************************************)
(* The state machine.  App starts with no venue/partner filter, every      *)
(* genre selected and an empty search string; HomeView then computes its   *)
(* two memos: filteredEvents, then grouped.                                *)
(***************************************************************************)
Init ==
  /\ pc = "render"
  /\ events \in EventLists(MaxEvents)
  /\ eventsKind = "array"
  /\ now \in Clocks
  /\ activeTab = "home"
  /\ filter = JsNull
  /\ jumpDate = Str(<<>>)
  /\ selectedGenres = AllGenres
  /\ searchQuery = Str(<<>>)
  /\ isGenreOpen = FALSE
  /\ filteredEvents = <<>>
  /\ filteredIsEvents = FALSE
  /\ grouped = <<>>
  /\ arg = Undefined
  /\ ret = Undefined
  /\ ServiceIdle

\* HomeView handed any filter state, and any events import.
InitFilter ==
  /\ pc = "render"
  /\ \/ eventsKind = "array" /\ events \in EventLists(MaxFilterEvents)
     \/ eventsKind \in OtherEventsKinds /\ events = <<>>
  /\ now = [year |-> 2025, month |-> 2, date |-> 1]
  /\ activeTab = "home"
  /\ filter \in FilterInputs
  /\ jumpDate = Str(<<>>)
  /\ selectedGenres \in GenreInputs
  /\ searchQuery \in SearchInputs
  /\ isGenreOpen = FALSE
  /\ filteredEvents = <<>>
  /\ filteredIsEvents = FALSE
  /\ grouped = <<>>
  /\ arg = Undefined
  /\ ret = Undefined
  /\ ServiceIdle

\* The first render of HomeView: the filteredEvents memo, then the grouped
\* memo on its result.  An exception raised in a memo callback ends the
\* render with nothing shown.
HomeViewRender ==
  /\ pc = "render"
  /\ IF RenderThrows(eventsKind, events, filter, selectedGenres, searchQuery)
       THEN /\ pc' = "crashed"
            /\ UNCHANGED <<filteredEvents, filteredIsEvents, grouped>>
       ELSE /\ filteredEvents' = computeFilteredEvents(events, filter, selectedGenres, searchQuery)
            /\ filteredIsEvents' = ReturnsEventsItself(filter, selectedGenres, searchQuery)
            /\ grouped' = groupEventsByDate(filteredEvents', now)
            /\ pc' = "shown"
  /\ UNCHANGED <<events, eventsKind, now, activeTab, filter, jumpDate, selectedGenres,
                 searchQuery, isGenreOpen, arg, ret>>
  /\ UNCHANGED svcVars

Next == HomeViewRender

Spec == Init /\ [][Next]_vars

SpecFilter == InitFilter /\ [][Next]_vars

(***************************************************************************)
(* normalizeDateToYMD called on its own.                                   *)
(***************************************************************************)
Years == { <<"2", "0", "2", "4">>, <<"2", "0", "2", "5">> }

DateDigits == {"0", "1", "3", "4"}

TwoDigits == { <<a, b>> : a \in DateDigits, b \in DateDigits }

\* Every YYYY-MM-DD over the years and digits above, 2024-13-40 among them.
CanonicalDates ==
  { y \o <<"-">> \o m \o <<"-">> \o d : y \in Years, m \in TwoDigits, d \in TwoDigits }

\* M/D/YYYY and MM/DD/YYYY.
UsDates ==
  { m \o <<"/">> \o d \o <<"/">> \o y :
      m \in { <<"3">>, <<"0", "3">>, <<"1", "2">>, <<"1", "3">> }, d \in { <<"1">>, <<"0", "1">>, <<"3", "1">> }, y \in Years }

OtherDateInputs ==
  { Undefined, JsNull, Num(20250301),
    Str(<<>>), Str(<<" ", " ">>), Str(<<"n", "o", "t", "-", "a", "-", "d", "a", "t", "e">>), Str(<<"2", "0", "2", "5", "-", "3", "-", "0", "1">>),
    Str(<<"2", "0", "2", "5", "/", "0", "3", "/", "0", "1">>), Str(<<"2", "0", "2", "5", "0", "3", "0", "1">>), Str(<<"2", "0", "2", "5", "-", "0", "3", "-", "0", "1", "1">>), Str(<<"0", "2", "5", "-", "0", "3", "-", "0", "1">>),
    Str(<<"0", "3", "/", "0", "1", "/", "2", "5">>), Str(<<"0", "0", "3", "/", "0", "1", "/", "2", "0", "2", "5">>), Str(<<"3", "/", "1", "/", "2", "0", "2", "5", "x">>), Str(<<"2", "0", "2", "5", "-", "0", "3", "-", "0", "1", "T", "0", "0", ":", "0", "0">>),
    Str(<<" ", "2", "0", "2", "5", "-", "0", "3", "-", "0", "1">>), Str(<<"2", "0", "2", "4", "-", "1", "3", "-", "4", "0", "\t">>), Str(<<" ", "3", "/", "1", "/", "2", "0", "2", "5", " ">>) }

DateInputs ==
  {Str(d) : d \in CanonicalDates} \cup {Str(d) : d \in UsDates} \cup OtherDateInputs

InitDate ==
  /\ pc = "call"
  /\ arg \in DateInputs
  /\ ret = Undefined
  /\ events = <<>>
  /\ eventsKind = "array"
  /\ now = [year |-> 2025, month |-> 2, date |-> 1]
  /\ activeTab = "home"
  /\ filter = JsNull
  /\ jumpDate = Str(<<>>)
  /\ selectedGenres = AllGenres
  /\ searchQuery = Str(<<>>)
  /\ isGenreOpen = FALSE
  /\ filteredEvents = <<>>
  /\ filteredIsEvents = FALSE
  /\ grouped = <<>>
  /\ ServiceIdle

CallNormalizeDate ==
  /\ pc = "call"
  /\ ret' = normalizeDateToYMD(arg)
  /\ pc' = "returned"
  /\ UNCHANGED <<events, eventsKind, now, activeTab, filter, jumpDate, selectedGenres,
                 searchQuery, isGenreOpen, filteredEvents, filteredIsEvents, grouped,
                 arg>>
  /\ UNCHANGED svcVars

NextDate == CallNormalizeDate

SpecDate == InitDate /\ [][NextDate]_vars

(***************************************************************************)
(* Properties of groupEventsByDate.  They are stated on the state after    *)
(* HomeViewRender: filteredEvents is the list grouped, grouped the result. *)
(***************************************************************************)
\* a < b, lexicographically by code unit: at the first place the two differ,
\* a has ended or has the smaller code unit.
LexLess(a, b) ==
  \E k \in 1..Len(b) :
    /\ k <= Len(a) + 1
    /\ \A i \in 1..(k - 1) : a[i] = b[i]
    /\ k = Len(a) + 1 \/ CharCode(a[k]) < CharCode(b[k])

\* The events of all the groups.
GroupedEvents(groups) == UNION {Range(groups[i].events) : i \in DOMAIN groups}

\* The normalized date of e is present and is not less than today.
DatedTodayOrLater(e) ==
  /\ normalizeDateToYMD(e.date).t = "string"
  /\ ~LexLess(normalizeDateToYMD(e.date).v, getTodayYMD(now))

DatedExactlyToday(e) == normalizeDateToYMD(e.date) = Str(getTodayYMD(now))

DatedBeforeToday(e) ==
  /\ normalizeDateToYMD(e.date).t = "string"
  /\ LexLess(normalizeDateToYMD(e.date).v, getTodayYMD(now))

\* C1: an event of the input list is in the output of groupEventsByDate if
\* and only if its normalized date is present and is not lexicographically
\* less than today: dated today or later it is included, dated before today
\* it is excluded.
C1_IncludedIffTodayOrLater ==
  pc = "shown" =>
    \A i \in DOMAIN filteredEvents :
      (filteredEvents[i] \in GroupedEvents(grouped)) <=> DatedTodayOrLater(filteredEvents[i])

\* An input with an event dated exactly today, which is shown, and an event
\* dated before today, which is not.
C1_Witness ==
  /\ pc = "shown"
  /\ \E i, j \in DOMAIN filteredEvents :
       /\ DatedExactlyToday(filteredEvents[i])
       /\ filteredEvents[i] \in GroupedEvents(grouped)
       /\ DatedBeforeToday(filteredEvents[j])
       /\ filteredEvents[j] \notin GroupedEvents(grouped)

\* C2: the groups are in strictly ascending order of their date string, there
\* is exactly one group per distinct normalized date among the surviving
\* events, no two groups share a date, and no group is empty.
C2_GroupsAscendingOnePerDate ==
  pc = "shown" =>
    /\ \A i, j \in DOMAIN grouped : i < j => LexLess(grouped[i].date, grouped[j].date)
    /\ {grouped[i].date : i \in DOMAIN grouped}
         = {normalizeDateToYMD(e.date).v : e \in {x \in Range(filteredEvents) : DatedTodayOrLater(x)}}
    /\ \A i \in DOMAIN grouped : grouped[i].events # <<>>

\* An input whose first surviving event is dated after its second, giving two
\* groups, the later of which the loop created first.
C2_Witness ==
  /\ pc = "shown"
  /\ Len(grouped) = 2
  /\ Len(filteredEvents) >= 2
  /\ DatedTodayOrLater(filteredEvents[1])
  /\ DatedTodayOrLater(filteredEvents[2])
  /\ LexLess(normalizeDateToYMD(filteredEvents[2].date).v,
             normalizeDateToYMD(filteredEvents[1].date).v)
  /\ Len(grouped[1].events) >= 2

\* x <= y for two results of parseTimeToMinutes.
TimeLessEq(x, y) ==
  \/ y = POSITIVE_INFINITY
  \/ x.t = "number" /\ y.t = "number" /\ x.v <= y.v

IsZebraAtSeven(e) == e.title = Str(<<"Z", "e", "b", "r", "a">>) /\ e.time = Str(<<"7", ":", "0", "0", " ", "P", "M">>)

IsAppleAtSeven(e) == e.title = Str(<<"A", "p", "p", "l", "e">>) /\ e.time = Str(<<"7", ":", "0", "0", " ", "P", "M">>)

\* C3: within every group, for events a before b, parseTimeToMinutes(a.time)
\* <= parseTimeToMinutes(b.time), and when the two are equal a.title does
\* not compare after b.title (a missing title being the empty string); so
\* "Zebra" at "7:00 PM" never precedes "Apple" at "7:00 PM".
C3_GroupSortedByTimeThenTitle ==
  pc = "shown" =>
    \A g \in DOMAIN grouped :
      \A i, j \in DOMAIN grouped[g].events :
        i < j =>
          LET a == grouped[g].events[i]
              b == grouped[g].events[j]
          IN /\ TimeLessEq(parseTimeToMinutes(a.time), parseTimeToMinutes(b.time))
             /\ parseTimeToMinutes(a.time) = parseTimeToMinutes(b.time)
                  => localeCompare(StringOrEmpty(a.title), StringOrEmpty(b.title)) <= 0
             /\ ~(IsZebraAtSeven(a) /\ IsAppleAtSeven(b))

\* Zebra then Apple in the input, Apple then Zebra in the output.
C3_Witness ==
  /\ pc = "shown"
  /\ Len(filteredEvents) = 2
  /\ IsZebraAtSeven(filteredEvents[1])
  /\ IsAppleAtSeven(filteredEvents[2])
  /\ Len(grouped) = 1
  /\ grouped[1].events = <<filteredEvents[2], filteredEvents[1]>>

\* The times of the inputs that are absent, empty, fail the grammar ("13 PM"
\* has an hour out of 1..12, "25:00" one out of 0..23) ...
HasNoValidTime(e) == e.time \in {Undefined, Str(<<>>), Str(<<"2", "5", ":", "0", "0">>), Str(<<"1", "3", " ", "P", "M">>)}

\* ... and those that are valid.
HasValidTime(e) == e.time \in {Str(<<"7", " ", "P", "M">>), Str(<<"1", "9", ":", "0", "0">>), Str(<<"7", ":", "0", "0", " ", "P", "M">>)}

FilterDone == pc = "shown"

VenueFilterOn == filter.t = "object" /\ filter.type = "venue" /\ filter.id # Str(<<>>)

PartnerFilterOn == filter.t = "object" /\ filter.type = "partner" /\ filter.id # Str(<<>>)

HasVenue(e) == e.venueId = filter.id

HasPartner(e) ==
  /\ e.partnerIds.t = "array"
  /\ \E i \in DOMAIN e.partnerIds.v : slugifyId(e.partnerIds.v[i]) = slugifyId(filter.id)

VenuePartnerStepKeeps(e) ==
  /\ VenueFilterOn => HasVenue(e)
  /\ PartnerFilterOn => HasPartner(e)

SelectionEmpty == selectedGenres.isSet /\ selectedGenres.items = {}

SelectionFull == selectedGenres.isSet /\ selectedGenres.items = Range(GENRES)

HasSelectedGenre(e) ==
  /\ e.genres.t = "array"
  /\ \E i \in DOMAIN e.genres.v : e.genres.v[i] \in selectedGenres.items

GenreStepKeeps(e) ==
  /\ ~SelectionEmpty
  /\ (selectedGenres.isSet /\ ~SelectionFull) => HasSelectedGenre(e)

\* The search string, trimmed and lower-cased.
SearchText ==
  IF searchQuery.t = "string" THEN toLowerCase(trim(searchQuery.v)) ELSE <<>>

TitleText(e) == IF e.title.t = "string" THEN toLowerCase(e.title.v) ELSE <<>>

\* t occurs in s.
Contains(s, t) ==
  \E i \in 0..(Len(s) - Len(t)) : \A k \in 1..Len(t) : s[i + k] = t[k]

TitleHasSearchText(e) == Contains(TitleText(e), SearchText)

SearchStepKeeps(e) == SearchText # <<>> => TitleHasSearchText(e)

\* C5: with the empty selection the filter stage returns the empty sequence,
\* whatever the collection, the venue/partner filter and the search string;
\* with the full GENRES selection it returns what the other two steps keep,
\* events without genres (or with a genres field that is no array) included.
C5_EmptySelectionNothingFullSelectionNoGenreFilter ==
  FilterDone =>
    /\ SelectionEmpty => filteredEvents = <<>>
    /\ SelectionFull =>
         filteredEvents
           = SelectSeq(events, LAMBDA e : VenuePartnerStepKeeps(e) /\ SearchStepKeeps(e))

\* The full selection, a search string in use, and an event whose genres
\* field is no array among the results.
C5_Witness ==
  /\ FilterDone
  /\ SelectionFull
  /\ SearchText # <<>>
  /\ Len(events) > Len(filteredEvents)
  /\ \E i \in DOMAIN filteredEvents : filteredEvents[i].genres.t # "array"

\* C6: with a selection neither empty nor full, the filter stage keeps an
\* event, among those the other steps keep, if and only if one of its genres
\* is selected; an event whose genres are empty, absent or no array is
\* dropped.
C6_PartialSelectionKeepsEventsWithASelectedGenre ==
  (FilterDone /\ selectedGenres.isSet /\ ~SelectionEmpty /\ ~SelectionFull) =>
    /\ filteredEvents
         = SelectSeq(events, LAMBDA e : /\ VenuePartnerStepKeeps(e)
                                        /\ SearchStepKeeps(e)
                                        /\ HasSelectedGenre(e))
    /\ \A i \in DOMAIN filteredEvents :
         filteredEvents[i].genres.t = "array" /\ filteredEvents[i].genres.v # <<>>

\* A partial selection; an event with one selected and one unselected genre
\* is kept, an event with no array of genres is dropped.
C6_Witness ==
  /\ FilterDone
  /\ selectedGenres = GenreSet({"Jazz", "Blues"})
  /\ Len(events) = 2
  /\ events[1].genres = Arr(<<"Jazz", "Polka">>)
  /\ events[2].genres.t # "array"
  /\ filteredEvents = <<events[1]>>

\* C7: with a search string that is non-empty once trimmed and lower-cased,
\* the filter stage keeps, among the events the other steps keep, exactly
\* those whose lower-cased title contains it; no other field makes an event
\* match.  With an empty or blank search string the search step removes
\* nothing.
C7_SearchMatchesTitleOnly ==
  FilterDone =>
    /\ SearchText # <<>> =>
         filteredEvents
           = SelectSeq(events, LAMBDA e : /\ VenuePartnerStepKeeps(e)
                                          /\ GenreStepKeeps(e)
                                          /\ TitleHasSearchText(e))
    /\ SearchText = <<>> =>
         filteredEvents
           = SelectSeq(events, LAMBDA e : VenuePartnerStepKeeps(e) /\ GenreStepKeeps(e))

\* The search string "v1": the event whose title holds it is kept, the event
\* that has it as venueId only is dropped.
C7_Witness ==
  /\ FilterDone
  /\ searchQuery = Str(<<"v", "1">>)
  /\ SelectionFull
  /\ filter = JsNull
  /\ Len(events) = 2
  /\ events[1].venueId = Str(<<"v", "1">>)
  /\ ~Contains(TitleText(events[1]), <<"v", "1">>)
  /\ filteredEvents = <<events[2]>>

\* C8: with an active venue filter the filter stage keeps, among the events
\* the other steps keep, exactly those whose venueId equals the selected id;
\* with an active partner filter exactly those with a partnerIds entry whose
\* slug equals the slug of the selected id, the slug being the id trimmed,
\* lower-cased, with "&" replaced by "and", every run of characters other
\* than a-z and 0-9 replaced by one "-", and leading and trailing "-"
\* removed.
C8_VenueByIdPartnerBySlug ==
  FilterDone =>
    /\ VenueFilterOn =>
         filteredEvents
           = SelectSeq(events, LAMBDA e : HasVenue(e) /\ GenreStepKeeps(e) /\ SearchStepKeeps(e))
    /\ PartnerFilterOn =>
         filteredEvents
           = SelectSeq(events, LAMBDA e : HasPartner(e) /\ GenreStepKeeps(e) /\ SearchStepKeeps(e))
    /\ slugifyId(Str(<<"R", " ", "&", " ", "B", " ", "C", "l", "u", "b">>)) = <<"r", "-", "a", "n", "d", "-", "b", "-", "c", "l", "u", "b">>
    /\ slugifyId(Str(<<" ", "R", " ", "&", " ", "B", " ", "C", "l", "u", "b">>)) = <<"r", "-", "a", "n", "d", "-", "b", "-", "c", "l", "u", "b">>
    /\ slugifyId(Str(<<"r", "&", "b", " ", "c", "l", "u", "b">>)) = <<"r", "a", "n", "d", "b", "-", "c", "l", "u", "b">>
    /\ slugifyId(Str(<<"r", "-", "a", "n", "d", "-", "b", "-", "c", "l", "u", "b">>)) = <<"r", "-", "a", "n", "d", "-", "b", "-", "c", "l", "u", "b">>

\* The partner filter "R & B Club": an event listing " R & B Club" second
\* is kept, an event listing "r&b club" is dropped.
C8_Witness ==
  /\ FilterDone
  /\ filter = FilterOf("partner", Str(<<"R", " ", "&", " ", "B", " ", "C", "l", "u", "b">>))
  /\ Len(events) = 2
  /\ events[1].partnerIds = Arr(<<Str(<<"x">>), Str(<<" ", "R", " ", "&", " ", "B", " ", "C", "l", "u", "b">>)>>)
  /\ events[2].partnerIds = Arr(<<Str(<<"r", "&", "b", " ", "c", "l", "u", "b">>)>>)
  /\ filteredEvents = <<events[1]>>

(***************************************************************************)
(* The end-to-end scenario.                                                *)
(***************************************************************************)
ScenarioSetUp ==
  /\ events = << Event(Str(<<"2", "0", "2", "5", "-", "0", "3", "-", "0", "1">>), Str(<<"7", " ", "P", "M">>), Str(<<"A">>), Undefined, Undefined, Undefined),
                 Event(Str(<<"0", "1", "/", "0", "2", "/", "2", "0", "2", "5">>), Str(<<"1", "9", ":", "0", "0">>), Str(<<"B">>), Undefined, Undefined, Undefined),
                 Event(Str(<<"n", "o", "t", "-", "a", "-", "d", "a", "t", "e">>), Undefined, Str(<<"C">>), Undefined, Undefined, Undefined) >>
  /\ now = [year |-> 2025, month |-> 2, date |-> 1]
  /\ filter = JsNull
  /\ selectedGenres.isSet
  /\ selectedGenres.items = Range(GENRES)
  /\ searchQuery = Str(<<>>)

\* C9: with no venue/partner filter, every genre selected, an empty search
\* string and today = 2025-03-01, the events A (2025-03-01, 7 PM), B
\* (01/02/2025, 19:00) and C (not-a-date) give exactly one group, dated
\* 2025-03-01, holding A alone.
C9_ScenarioShowsOnlyA ==
  (ScenarioSetUp /\ pc = "shown") =>
    /\ grouped = << [date |-> <<"2", "0", "2", "5", "-", "0", "3", "-", "0", "1">>,
                     events |-> <<events[1]>>] >>
    /\ filteredEvents = events
    /\ DatedBeforeToday(events[2])
    /\ normalizeDateToYMD(events[3].date) = JsNull

\* The scenario has run.
C9_Witness == ScenarioSetUp /\ pc = "shown" /\ Len(grouped) = 1

(***************************************************************************)
(* Properties of normalizeDateToYMD.  They are stated on the state after   *)
(* CallNormalizeDate: arg is the input, ret the result.                    *)
(***************************************************************************)
\* Four digits, "-", two digits, "-", two digits.
HasCanonicalShape(s) ==
  /\ Len(s) = 10
  /\ \A i \in 1..10 : IF i \in {5, 8} THEN s[i] = "-" ELSE s[i] \in DigitSet

\* C10: a string of the shape four digits, "-", two digits, "-", two digits
\* is returned unchanged by normalizeDateToYMD, whether or not it is a
\* calendar date.
C10_CanonicalShapeUnchanged ==
  (pc = "returned" /\ arg.t = "string" /\ HasCanonicalShape(arg.v)) => ret = arg

\* 2024-13-40 has been normalized, to itself.
C10_Witness ==
  /\ pc = "returned"
  /\ arg = Str(<<"2", "0", "2", "4", "-", "1", "3", "-", "4", "0">>)
  /\ ret = Str(<<"2", "0", "2", "4", "-", "1", "3", "-", "4", "0">>)

\* The places of the "/" characters of s, in order.
SlashPlaces(s) == {i \in DOMAIN s : s[i] = "/"}

FirstSlash(s) == CHOOSE i \in SlashPlaces(s) : \A j \in SlashPlaces(s) : i <= j

LastSlash(s) == CHOOSE i \in SlashPlaces(s) : \A j \in SlashPlaces(s) : j <= i

MonthText(s) == SubSeq(s, 1, FirstSlash(s) - 1)

DayText(s) == SubSeq(s, FirstSlash(s) + 1, LastSlash(s) - 1)

YearText(s) == SubSeq(s, LastSlash(s) + 1, Len(s))

IsDigitText(x, lengths) == Len(x) \in lengths /\ \A i \in DOMAIN x : x[i] \in DigitSet

\* One or two digits, "/", one or two digits, "/", four digits.
HasUsShape(s) ==
  /\ Cardinality(SlashPlaces(s)) = 2
  /\ IsDigitText(MonthText(s), {1, 2})
  /\ IsDigitText(DayText(s), {1, 2})
  /\ IsDigitText(YearText(s), {4})

\* One digit gets a "0" in front.
TwoDigitText(x) == IF Len(x) = 1 THEN <<"0">> \o x ELSE x

\* C11: a string of the shape M/D/YYYY or MM/DD/YYYY is normalized to
\* YYYY-MM-DD with the same year and the month and the day left-padded with
\* "0" to two digits; "3/1/2025" and "03/01/2025" both give "2025-03-01".
C11_UsShapeReassembledAndPadded ==
  (pc = "returned" /\ arg.t = "string") =>
    /\ HasUsShape(arg.v) =>
         ret = Str(YearText(arg.v) \o <<"-">> \o TwoDigitText(MonthText(arg.v))
                     \o <<"-">> \o TwoDigitText(DayText(arg.v)))
    /\ arg.v \in { <<"3", "/", "1", "/", "2", "0", "2", "5">>, <<"0", "3", "/", "0", "1", "/", "2", "0", "2", "5">> } => ret = Str(<<"2", "0", "2", "5", "-", "0", "3", "-", "0", "1">>)

\* "3/1/2025" has been normalized, to "2025-03-01".
C11_Witness ==
  /\ pc = "returned"
  /\ arg = Str(<<"3", "/", "1", "/", "2", "0", "2", "5">>)
  /\ HasUsShape(arg.v)
  /\ ret = Str(<<"2", "0", "2", "5", "-", "0", "3", "-", "0", "1">>)

\* s without its leading and trailing blanks.
OuterBlanksDropped(s) ==
  LET inked == {i \in DOMAIN s : s[i] \notin {" ", "\t"}}
  IN IF inked = {} THEN <<>>
     ELSE SubSeq(s, CHOOSE i \in inked : \A j \in inked : i <= j,
                    CHOOSE i \in inked : \A j \in inked : j <= i)

HasEitherShape(s) == HasCanonicalShape(s) \/ HasUsShape(s)

\* C12 as stated: an input that matches neither shape, the empty string, a
\* blank string and an absent value among them, is normalized to null.
C12_NeitherShapeGivesNull ==
  (pc = "returned" /\ ~(arg.t = "string" /\ HasEitherShape(arg.v))) => ret = JsNull

\* C12: an input that is absent, or whose text without its surrounding blanks
\* is empty or matches neither shape, is normalized to null; every call
\* returns a value, null or a string.
C12_NeitherShapeAfterTrimGivesNull ==
  pc = "returned" =>
    /\ ret = JsNull \/ ret.t = "string"
    /\ arg \in {Undefined, JsNull} => ret = JsNull
    /\ (arg.t = "string" /\ ~HasEitherShape(OuterBlanksDropped(arg.v))) => ret = JsNull

\* "not-a-date" has been normalized, to null.
C12_Witness ==
  /\ pc = "returned"
  /\ arg = Str(<<"n", "o", "t", "-", "a", "-", "d", "a", "t", "e">>)
  /\ ~HasEitherShape(OuterBlanksDropped(arg.v))
  /\ ret = JsNull

(***************************************************************************)
(* parseTimeToMinutes on its own: Init draws the input, CallParseTime      *)
(* applies the function.  A time text is an hour, optional ":MM" minutes,  *)
(* an optional gap and an optional am/pm suffix; NoMinutes stands for the  *)
(* absent ":MM" part.                                                      *)
(***************************************************************************)
HourNumbers == {0, 1, 7, 9, 10, 11, 12, 13, 19, 23, 24, 99}

NoMinutes == 0 - 1

MinuteNumbers == {NoMinutes, 0, 5, 59, 60, 99}

GapTexts == { <<>>, <<" ">> }

SuffixTexts == { <<>>, <<"a", "m">>, <<"A", "M">>, <<"p", "m">>, <<"P", "M">>, <<"P", "m">> }

HourText(h, padded) == IF padded THEN padStart(NatToString(h), 2, "0") ELSE NatToString(h)

MinuteText(m) == IF m = NoMinutes THEN <<>> ELSE <<":">> \o padStart(NatToString(m), 2, "0")

\* The time texts, each with the numbers and the suffix it was written from.
TimeCases ==
  { [text |-> HourText(h, padded) \o MinuteText(m) \o gap \o ap,
     h |-> h, m |-> IF m = NoMinutes THEN 0 ELSE m, ap |-> toLowerCase(ap)] :
      h \in HourNumbers, padded \in BOOLEAN, m \in MinuteNumbers,
      gap \in GapTexts, ap \in SuffixTexts }

OtherTimeInputs ==
  { Undefined, JsNull, Num(19), Num(0),
    Str(<<>>), Str(<<" ", " ">>), Str(<<"T", "B", "A">>), Str(<<"n", "o", "o", "n">>), Str(<<"7", ":", "0", " ", "P", "M">>), Str(<<"7", ":", "0", "0", "0">>),
    Str(<<"1", "2", "3">>), Str(<<":", "3", "0">>), Str(<<"7", ".", "3", "0", " ", "P", "M">>), Str(<<"7", ":", "0", "0", " ", "P">>), Str(<<"7", ":", "0", "0", " ", "P", "M", "s">>),
    Str(<<"7", " ", ":", " ", "0", "0">>), Str(<<"7", ":", " ", "P", "M">>), Str(<<"-", "1", ":", "0", "0">>), Str(<<"7", ":", "0", "0", " ", "a", ".", "m", ".">>), Str(<<"P", "M">>),
    Str(<<" ", "7", ":", "0", "0", " ", "P", "M", " ">>), Str(<<"\t", "1", "9", ":", "0", "0">>), Str(<<"7", ":", "0", "0", "\t", " ", "p", "m">>), Str(<<"1", "2", " ">>), Str(<<"7", " ", "P", "M", " ", "x">>) }

TimeInputs == {Str(c.text) : c \in TimeCases} \cup OtherTimeInputs

InitTime ==
  /\ pc = "callTime"
  /\ arg \in TimeInputs
  /\ ret = Undefined
  /\ events = <<>>
  /\ eventsKind = "array"
  /\ now = [year |-> 2025, month |-> 2, date |-> 1]
  /\ activeTab = "home"
  /\ filter = JsNull
  /\ jumpDate = Str(<<>>)
  /\ selectedGenres = AllGenres
  /\ searchQuery = Str(<<>>)
  /\ isGenreOpen = FALSE
  /\ filteredEvents = <<>>
  /\ filteredIsEvents = FALSE
  /\ grouped = <<>>
  /\ ServiceIdle

CallParseTime ==
  /\ pc = "callTime"
  /\ ret' = parseTimeToMinutes(arg)
  /\ pc' = "returnedTime"
  /\ UNCHANGED <<events, eventsKind, now, activeTab, filter, jumpDate, selectedGenres,
                 searchQuery, isGenreOpen, filteredEvents, filteredIsEvents, grouped,
                 arg>>
  /\ UNCHANGED svcVars

NextTime == CallParseTime

SpecTime == InitTime /\ [][NextTime]_vars

\* The case arg was written from, when it is one of the time texts.
IsCase(c) == pc = "returnedTime" /\ arg = Str(c.text)

\* C13: with an am/pm suffix (any letter case), hour h and minutes m in 0..59
\* (0 when absent), the result is the unknown sentinel unless 1 <= h <= 12;
\* otherwise m for 12 am, 720+m for 12 pm, 60h+m for the other am hours and
\* 60h+720+m for the other pm hours.  "12:00 AM" is 0, "12:00 PM" is 720,
\* "7:00 PM" and "19:00" are 1140.
C13_TwelveHourClock ==
  /\ \A c \in TimeCases :
       (IsCase(c) /\ c.ap # <<>> /\ c.m <= 59) =>
         ret = IF c.h < 1 \/ c.h > 12 THEN POSITIVE_INFINITY
               ELSE IF c.ap = <<"a", "m">>
                      THEN (IF c.h = 12 THEN Num(c.m) ELSE Num(60 * c.h + c.m))
                      ELSE (IF c.h = 12 THEN Num(720 + c.m) ELSE Num(60 * c.h + 720 + c.m))
  /\ (pc = "returnedTime" /\ arg = Str(<<"1", "2", ":", "0", "0", " ", "A", "M">>)) => ret = Num(0)
  /\ (pc = "returnedTime" /\ arg = Str(<<"1", "2", ":", "0", "0", " ", "P", "M">>)) => ret = Num(720)
  /\ (pc = "returnedTime" /\ arg \in {Str(<<"7", ":", "0", "0", " ", "P", "M">>), Str(<<"1", "9", ":", "0", "0">>)}) => ret = Num(1140)

\* "12:00 AM" has been parsed, to 0.
C13_Witness ==
  /\ pc = "returnedTime"
  /\ arg = Str(<<"1", "2", ":", "0", "0", " ", "A", "M">>)
  /\ ret = Num(0)

IsMinutesOfDay(x) == x.t = "number" /\ x.v \in 0..1439

\* C14: without an am/pm suffix, hour h (one or two digits) and minutes m
\* (two digits, 0 when absent) give 60h+m when 0 <= h <= 23 and 0 <= m <= 59
\* and the unknown sentinel otherwise; every result, for any input, is the
\* sentinel or an integer in 0..1439.
C14_TwentyFourHourClockAndRange ==
  /\ \A c \in TimeCases :
       (IsCase(c) /\ c.ap = <<>>) =>
         ret = IF c.h <= 23 /\ c.m <= 59 THEN Num(60 * c.h + c.m) ELSE POSITIVE_INFINITY
  /\ pc = "returnedTime" => (ret = POSITIVE_INFINITY \/ IsMinutesOfDay(ret))

\* "23:59" has been parsed, to 1439, the largest result.
C14_Witness ==
  /\ pc = "returnedTime"
  /\ arg = Str(<<"2", "3", ":", "5", "9">>)
  /\ ret = Num(1439)

\* The recognizer of the time grammar, one character at a time: one or two
\* hour digits, optionally ":" and two minute digits, optional blanks,
\* optionally "am" or "pm" in any letter case.
GrammarStep(q, c) ==
  LET digit == c \in DigitSet
      blank == c \in {" ", "\t"}
      aOrP == c \in {"a", "A", "p", "P"}
  IN CASE q = "start" /\ digit -> "hour1"
       [] q = "hour1" /\ digit -> "hour2"
       [] q \in {"hour1", "hour2"} /\ c = ":" -> "colon"
       [] q = "colon" /\ digit -> "minute1"
       [] q = "minute1" /\ digit -> "minute2"
       [] q \in {"hour1", "hour2", "minute2", "gap"} /\ blank -> "gap"
       [] q \in {"hour1", "hour2", "minute2", "gap"} /\ aOrP -> "suffix1"
       [] q = "suffix1" /\ c \in {"m", "M"} -> "suffix2"
       [] OTHER -> "dead"

RECURSIVE GrammarRun(_, _)
GrammarRun(q, s) ==
  IF s = <<>> THEN q ELSE GrammarRun(GrammarStep(q, Head(s)), Tail(s))

InTimeGrammar(s) ==
  GrammarRun("start", s) \in {"hour1", "hour2", "minute2", "gap", "suffix2"}

\* The number a text of one or two digits stands for.
TextNumber(x) == CHOOSE n \in 0..99 : padStart(NatToString(n), Len(x), "0") = x

\* The hour, the minutes and the suffix of a text of the time grammar.
HourOfText(s) ==
  TextNumber(IF Len(s) >= 2 /\ s[2] \in DigitSet THEN SubSeq(s, 1, 2) ELSE SubSeq(s, 1, 1))

MinutesOfText(s) ==
  IF \E i \in DOMAIN s : s[i] = ":"
    THEN LET i == CHOOSE j \in DOMAIN s : s[j] = ":" IN TextNumber(SubSeq(s, i + 1, i + 2))
    ELSE 0

HasSuffix(s) == s[Len(s)] \in {"m", "M"}

FailsRangeCheck(s) ==
  \/ MinutesOfText(s) > 59
  \/ HourOfText(s) > 23
  \/ HasSuffix(s) /\ (HourOfText(s) < 1 \/ HourOfText(s) > 12)

\* C15: parseTimeToMinutes returns a value for every input, the sentinel or a
\* number; for a string or an absent input it returns the sentinel exactly
\* when the trimmed text is empty, is not in the time grammar, or fails an
\* hour or minute range check.
C15_TotalAndSentinelExactlyOnBadInput ==
  pc = "returnedTime" =>
    /\ ret = POSITIVE_INFINITY \/ ret.t = "number"
    /\ arg.t \in {"string", "undefined", "null"} =>
         LET s == IF arg.t = "string" THEN OuterBlanksDropped(arg.v) ELSE <<>>
         IN (ret = POSITIVE_INFINITY) <=>
              (s = <<>> \/ ~InTimeGrammar(s) \/ FailsRangeCheck(s))

\* "7:0 PM", with one minute digit, has been parsed, to the sentinel.
C15_Witness ==
  /\ pc = "returnedTime"
  /\ arg = Str(<<"7", ":", "0", " ", "P", "M">>)
  /\ ~InTimeGrammar(arg.v)
  /\ ret = POSITIVE_INFINITY

(***************************************************************************)
(* Claims about exceptions, checked with SpecFilter: pc is "crashed" when  *)
(* the render raised.                                                      *)
(***************************************************************************)
\* C16: when the events collection is absent or is no sequence, the pipeline
\* (the filter stage, then groupEventsByDate) ends with an empty result and
\* does not fail.
C16_NoSequenceGivesEmptyResult ==
  (eventsKind # "array" /\ pc # "render") => (pc = "shown" /\ grouped = <<>>)

(***************************************************************************)
(* HomeView on records with missing and malformed fields, in every filter  *)
(* state.                                                                  *)
(***************************************************************************)
MaxMalformedEvents == 3

\* {date: 20250301, time: 19, title: 7, venueId: null,
\*  partnerIds: [undefined, 3], genres: ["Polka"]}: numbers for strings.
EventOdd ==
  Event(Num(20250301), Num(19), Num(7), JsNull, Arr(<<Undefined, Num(3)>>), Arr(<<"Polka">>))

\* {date: "2025-03-01", time: 19, title: "v1", genres: ["Rock"]}
EventNumericTime ==
  Event(Str(<<"2", "0", "2", "5", "-", "0", "3", "-", "0", "1">>), Num(19), Str(<<"v", "1">>), Undefined, Undefined, Arr(<<"Rock">>))

MalformedPool == {EventBare, EventTba, EventA, EventC, EventLate, EventOdd, EventNumericTime}

InitMalformed ==
  /\ pc = "render"
  /\ events \in UNION {[1..k -> MalformedPool] : k \in 0..MaxMalformedEvents}
  /\ eventsKind = "array"
  /\ now = [year |-> 2025, month |-> 2, date |-> 1]
  /\ activeTab = "home"
  /\ filter \in FilterInputs
  /\ jumpDate = Str(<<>>)
  /\ selectedGenres \in GenreInputs
  /\ searchQuery \in SearchInputs
  /\ isGenreOpen = FALSE
  /\ filteredEvents = <<>>
  /\ filteredIsEvents = FALSE
  /\ grouped = <<>>
  /\ arg = Undefined
  /\ ret = Undefined
  /\ ServiceIdle

SpecMalformed == InitMalformed /\ [][Next]_vars

\* The dates of the records that are missing or unparseable ...
DateMissingOrUnparseable(e) == e.date \in {Undefined, Str(<<"n", "o", "t", "-", "a", "-", "d", "a", "t", "e">>), Num(20250301)}

\* ... and the times that are missing or unparseable, and those that are not.
TimeMissingOrUnparseable(e) == e.time \in {Undefined, Str(<<"2", "5", ":", "0", "0">>), Str(<<"1", "3", " ", "P", "M">>)}

TimeParseable(e) == e.time \in {Str(<<"7", " ", "P", "M">>), Num(19)}

\* C17: on records that lack fields or carry malformed values, in every
\* filter state, the render does not raise; a record with a missing or
\* unparseable date is in no group, and within a group no record with a
\* missing or unparseable time precedes one with a parseable time.
C17_MalformedRecordsNeverRaise ==
  /\ pc # "crashed"
  /\ pc = "shown" =>
       /\ \A e \in Range(events) : TimeMissingOrUnparseable(e) \/ TimeParseable(e)
       /\ \A e \in Range(events) :
            DateMissingOrUnparseable(e) => e \notin GroupedEvents(grouped)
       /\ \A g \in DOMAIN grouped :
            \A i, j \in DOMAIN grouped[g].events :
              i < j => ~(/\ TimeMissingOrUnparseable(grouped[g].events[i])
                         /\ TimeParseable(grouped[g].events[j]))

\* A record without any field, one with a string for partnerIds and genres
\* and an unparseable time, and one with a number for its time, with a genre
\* selection that is no Set: the render ends, the last two share a group,
\* the one with the parseable time first.
C17_Witness ==
  /\ pc = "shown"
  /\ events = <<EventBare, EventTba, EventNumericTime>>
  /\ selectedGenres = NotASet
  /\ grouped = << [date |-> <<"2", "0", "2", "5", "-", "0", "3", "-", "0", "1">>, events |-> <<EventNumericTime, EventTba>>] >>

(***************************************************************************)
(* Claims about groupEventsByDate run again, checked with Spec.            *)
(***************************************************************************)
\* The events of the groups, one group after the other.
RECURSIVE ConcatGroups(_)
ConcatGroups(groups) ==
  IF groups = <<>> THEN <<>>
  ELSE groups[1].events \o ConcatGroups(Tail(groups))

\* Two events of one group that tie on time and title and differ otherwise.
TiedPair(a, b) ==
  /\ a # b
  /\ a.title = b.title
  /\ {a.time, b.time} = {Str(<<"7", ":", "0", "0", " ", "P", "M">>), Str(<<"1", "9", ":", "0", "0">>)}

\* C18: for a fixed today, grouping the concatenation of the events of the
\* output groups, in output order, gives the same groups again; after the
\* run the input list is still the list the filter stage handed over, in
\* its order.
C18_RegroupingTheOutputGivesTheSameGroups ==
  pc = "shown" =>
    /\ groupEventsByDate(ConcatGroups(grouped), now) = grouped
    /\ filteredEvents = computeFilteredEvents(events, filter, selectedGenres, searchQuery)

\* A group with two events that tie on time and title, and a second group.
C18_Witness ==
  /\ pc = "shown"
  /\ Len(grouped) = 2
  /\ Len(grouped[1].events) = 2
  /\ TiedPair(grouped[1].events[1], grouped[1].events[2])
  /\ groupEventsByDate(ConcatGroups(grouped), now) = grouped

(***************************************************************************)
(* The App: its state, the handlers of Shell and App, and the re-render    *)
(* that follows each state change.  HomeView is mounted while activeTab    *)
(* is "home"; its memos are lost when it is unmounted.                     *)
(***************************************************************************)
MaxTickableGenres == 2

MaxDaysPassed == 1

\* The genres whose checkboxes are ticked and unticked: "Rock", "Reggae".
TickableGenres == {GENRES[Len(GENRES) - i] : i \in 1..MaxTickableGenres}

NavKeys == {"home", "venues", "partners", "about", "contact"}

VenueIds == { Str(<<"v", "1">>), Str(<<"v", "2">>) }

PartnerIds == { Str(<<"R", " ", "&", " ", "B", " ", "C", "l", "u", "b">>) }

\* What is typed into the search box: "", " ", "ap", "v1".
SearchTexts == { Str(<<>>), Str(<<" ">>), Str(<<"a", "p">>), Str(<<"v", "1">>) }

\* What the date picker hands over: a date, or "" when it is cleared.
PickedDates == { Str(<<"2", "0", "2", "5", "-", "0", "3", "-", "0", "2">>), Str(<<>>) }

AppEventLists ==
  { <<EventA, EventZebra, EventLate>>, <<EventEmptyTime, EventApple, EventTba>> }

FirstDay == [year |-> 2025, month |-> 2, date |-> 1]

InitApp ==
  /\ pc = "render"
  /\ events \in AppEventLists
  /\ eventsKind = "array"
  /\ now = FirstDay
  /\ activeTab = "home"
  /\ filter = JsNull
  /\ jumpDate = Str(<<>>)
  /\ selectedGenres = AllGenres
  /\ searchQuery = Str(<<>>)
  /\ isGenreOpen = FALSE
  /\ filteredEvents = <<>>
  /\ filteredIsEvents = FALSE
  /\ grouped = <<>>
  /\ arg = Undefined
  /\ ret = Undefined
  /\ ServiceIdle

resetGenresToAll == GenreSet({GENRES[i] : i \in DOMAIN GENRES})

clearGenres == GenreSet({})

\* The state the "All" button sets.
toggleAllGenres(genres) ==
  LET count == IF genres.isSet THEN Cardinality(genres.items) ELSE 0
  IN IF count = Len(GENRES) THEN clearGenres ELSE resetGenresToAll

\* Mutant: unticking the last genre leaves no Set.
checkboxNextNullWhenEmpty(prev, g, on) ==
  LET base == IF prev.isSet THEN prev.items ELSE {}
      items == IF on THEN base \cup {g} ELSE base \ {g}
  IN IF items = {} THEN NotASet ELSE GenreSet(items)

\* The updater of the checkbox of genre g: new Set(prev || []), then add or
\* delete.
checkboxNext(prev, g, on) ==
  LET base == IF prev.isSet THEN prev.items ELSE {}
  IN GenreSet(IF on THEN base \cup {g} ELSE base \ {g})

\* Mutant: the filter is kept on the way home.
setActiveTabWrappedKeepsFilter(key, flt) == flt

\* setActiveTabWrapped: the filter it leaves.
setActiveTabWrappedFilter(key, flt) == IF key = "home" THEN JsNull ELSE flt

\* The memos of HomeView after a state change to tab, flt, genres, query.
\* depsChanged: one of the dependencies filter, selectedGenres, searchQuery
\* is not the same value (Object.is) as at the last render.  The grouped memo
\* is recomputed when filteredEvents is not the same array as before.
MemosAfter(tab, flt, genres, query, depsChanged) ==
  IF tab # "home" THEN
    /\ filteredEvents' = <<>>
    /\ filteredIsEvents' = FALSE
    /\ grouped' = <<>>
  ELSE IF activeTab # "home" THEN
    /\ filteredEvents' = computeFilteredEvents(events, flt, genres, query)
    /\ filteredIsEvents' = ReturnsEventsItself(flt, genres, query)
    /\ grouped' = groupEventsByDate(filteredEvents', now)
  ELSE IF depsChanged THEN
    /\ filteredEvents' = computeFilteredEvents(events, flt, genres, query)
    /\ filteredIsEvents' = ReturnsEventsItself(flt, genres, query)
    /\ grouped' = IF filteredIsEvents /\ filteredIsEvents'
                    THEN grouped
                    ELSE groupEventsByDate(filteredEvents', now)
  ELSE UNCHANGED <<filteredEvents, filteredIsEvents, grouped>>

\* The "Genre Filter" button, shown on the home tab.
ToggleGenreMenu ==
  /\ pc = "shown"
  /\ activeTab = "home"
  /\ isGenreOpen' = ~isGenreOpen
  /\ UNCHANGED <<pc, events, eventsKind, now, activeTab, filter, jumpDate, selectedGenres,
                 searchQuery, filteredEvents, filteredIsEvents, grouped, arg, ret>>
  /\ UNCHANGED svcVars

\* The "Done" button of the genre menu.
CloseGenreMenu ==
  /\ pc = "shown"
  /\ activeTab = "home"
  /\ isGenreOpen
  /\ isGenreOpen' = FALSE
  /\ UNCHANGED <<pc, events, eventsKind, now, activeTab, filter, jumpDate, selectedGenres,
                 searchQuery, filteredEvents, filteredIsEvents, grouped, arg, ret>>
  /\ UNCHANGED svcVars

\* A genre checkbox is ticked or unticked: on is the new state of the box,
\* which showed whether g was selected.
CheckGenre ==
  /\ pc = "shown"
  /\ activeTab = "home"
  /\ isGenreOpen
  /\ \E g \in TickableGenres :
       LET on == ~(selectedGenres.isSet /\ g \in selectedGenres.items)
       IN /\ selectedGenres' = checkboxNext(selectedGenres, g, on)
          /\ MemosAfter(activeTab, filter, selectedGenres', searchQuery, TRUE)
  /\ UNCHANGED <<pc, events, eventsKind, now, activeTab, filter, jumpDate, searchQuery,
                 isGenreOpen, arg, ret>>
  /\ UNCHANGED svcVars

\* The "All" button of the genre menu.
ToggleAllGenres ==
  /\ pc = "shown"
  /\ activeTab = "home"
  /\ isGenreOpen
  /\ selectedGenres' = toggleAllGenres(selectedGenres)
  /\ MemosAfter(activeTab, filter, selectedGenres', searchQuery, TRUE)
  /\ UNCHANGED <<pc, events, eventsKind, now, activeTab, filter, jumpDate, searchQuery,
                 isGenreOpen, arg, ret>>
  /\ UNCHANGED svcVars

\* A nav button: "Today" resets the jump date; setActiveTabWrapped clears the
\* filter on the way home.
NavClick ==
  /\ pc = "shown"
  /\ \E key \in NavKeys :
       /\ jumpDate' = IF key = "home" THEN Str(<<>>) ELSE jumpDate
       /\ filter' = setActiveTabWrappedFilter(key, filter)
       /\ activeTab' = key
       /\ MemosAfter(key, filter', selectedGenres, searchQuery, filter' # filter)
  /\ UNCHANGED <<pc, events, eventsKind, now, selectedGenres, searchQuery, isGenreOpen,
                 arg, ret>>
  /\ UNCHANGED svcVars

\* The date picker: the jump date is set and setActiveTabWrapped("home") runs.
PickDate ==
  /\ pc = "shown"
  /\ \E d \in PickedDates :
       /\ d # jumpDate
       /\ jumpDate' = d
  /\ filter' = setActiveTabWrappedFilter("home", filter)
  /\ activeTab' = "home"
  /\ MemosAfter("home", filter', selectedGenres, searchQuery, filter' # filter)
  /\ UNCHANGED <<pc, events, eventsKind, now, selectedGenres, searchQuery, isGenreOpen,
                 arg, ret>>
  /\ UNCHANGED svcVars

\* A venue is selected in the venues view: goHomeWithFilter.
SelectVenue ==
  /\ pc = "shown"
  /\ activeTab = "venues"
  /\ \E id \in VenueIds : filter' = FilterOf("venue", id)
  /\ activeTab' = "home"
  /\ MemosAfter("home", filter', selectedGenres, searchQuery, TRUE)
  /\ UNCHANGED <<pc, events, eventsKind, now, jumpDate, selectedGenres, searchQuery,
                 isGenreOpen, arg, ret>>
  /\ UNCHANGED svcVars

\* A partner is selected in the partners view: goHomeWithFilter.
SelectPartner ==
  /\ pc = "shown"
  /\ activeTab = "partners"
  /\ \E id \in PartnerIds : filter' = FilterOf("partner", id)
  /\ activeTab' = "home"
  /\ MemosAfter("home", filter', selectedGenres, searchQuery, TRUE)
  /\ UNCHANGED <<pc, events, eventsKind, now, jumpDate, selectedGenres, searchQuery,
                 isGenreOpen, arg, ret>>
  /\ UNCHANGED svcVars

\* The "Clear filter" button, shown on the home tab while a filter is set.
ClearFilter ==
  /\ pc = "shown"
  /\ activeTab = "home"
  /\ filter # JsNull
  /\ filter' = JsNull
  /\ MemosAfter(activeTab, filter', selectedGenres, searchQuery, TRUE)
  /\ UNCHANGED <<pc, events, eventsKind, now, activeTab, jumpDate, selectedGenres,
                 searchQuery, isGenreOpen, arg, ret>>
  /\ UNCHANGED svcVars

\* The text of the search box, shown on the home tab, changes.
TypeSearch ==
  /\ pc = "shown"
  /\ activeTab = "home"
  /\ \E text \in SearchTexts :
       /\ text # searchQuery
       /\ searchQuery' = text
  /\ MemosAfter(activeTab, filter, selectedGenres, searchQuery', TRUE)
  /\ UNCHANGED <<pc, events, eventsKind, now, activeTab, filter, jumpDate, selectedGenres,
                 isGenreOpen, arg, ret>>
  /\ UNCHANGED svcVars

\* Midnight passes: the local date advances by one day.
Tick ==
  /\ pc = "shown"
  /\ now.date < FirstDay.date + MaxDaysPassed
  /\ now' = [now EXCEPT !.date = @ + 1]
  /\ UNCHANGED <<pc, events, eventsKind, activeTab, filter, jumpDate, selectedGenres,
                 searchQuery, isGenreOpen, filteredEvents, filteredIsEvents, grouped,
                 arg, ret>>
  /\ UNCHANGED svcVars

NextApp ==
  \/ HomeViewRender
  \/ ToggleGenreMenu
  \/ CloseGenreMenu
  \/ CheckGenre
  \/ ToggleAllGenres
  \/ NavClick
  \/ PickDate
  \/ SelectVenue
  \/ SelectPartner
  \/ ClearFilter
  \/ TypeSearch
  \/ Tick

SpecApp == InitApp /\ [][NextApp]_vars

\* C19: after any sequence of UI actions the genre selection is a Set, never
\* null, and a subset of GENRES, so that it has as many members as GENRES
\* exactly when it is the full set.
C19_GenreSelectionIsASubsetOfGenres ==
  /\ selectedGenres.isSet
  /\ selectedGenres.items \subseteq Range(GENRES)
  /\ (Cardinality(selectedGenres.items) = Len(GENRES)) <=> (selectedGenres.items = Range(GENRES))

\* The selection was emptied by "All", one genre was ticked, and the user
\* went to the venues tab and back with a venue filter.
C19_Witness ==
  /\ pc = "shown"
  /\ selectedGenres.isSet
  /\ Cardinality(selectedGenres.items) = 1
  /\ filter = FilterOf("venue", Str(<<"v", "1">>))
  /\ searchQuery = Str(<<"a", "p">>)

\* The venue/partner filter, the selected genres or the search string change
\* in the step.
FilterStateChanges ==
  <<filter', selectedGenres', searchQuery'>> # <<filter, selectedGenres, searchQuery>>

\* The result of the pipeline on the events, run in the state after the step.
PipelineResultAfterStep ==
  groupEventsByDate(computeFilteredEvents(events', filter', selectedGenres', searchQuery'),
                    now')

\* C20: after every change of the venue/partner filter, the selected genres
\* or the search string, the groups the home view shows are the result of
\* the filter stage and groupEventsByDate on the events in the new filter
\* state; no result of an earlier filter state stays shown.
C20_ShownGroupsFollowTheFilterState ==
  [][(FilterStateChanges /\ activeTab' = "home") => grouped' = PipelineResultAfterStep]_vars

(***************************************************************************)
(* The maintainer service, src/scripts/dev-writer.mjs: its functions.      *)
(*                                                                         *)
(* A stored event is a record of the fields id, title, date, time,         *)
(* venueId, partnerIds, genres, flyer and link, a missing field being      *)
(* Undefined; a venue or partner is a record of id, name and link.  A      *)
(* request body is Invalid when readBodyJson gives null, else an object    *)
(* whose missing fields are Undefined.                                     *)
(***************************************************************************)
\* String(x ?? "")
NullishString(x) ==
  IF x.t \in {"undefined", "null"} THEN <<>>
  ELSE IF x.t = "string" THEN x.v
  ELSE IF x.t = "number" THEN NatToString(x.v)
  ELSE <<"[", "o", "b", "j", "e", "c", "t", "]">>

normalizeString(x) == trim(NullishString(x))

normalizeOptionalString(x) ==
  LET s == normalizeString(x) IN IF Len(s) # 0 THEN Str(s) ELSE JsNull

\* x.map((v) => normalizeString(v)).filter(Boolean), x a sequence of values.
NormalizedNonEmpty(x) ==
  LET mapped == [i \in DOMAIN x |-> normalizeString(x[i])]
      kept == SelectSeq(mapped, LAMBDA s : s # <<>>)
  IN [i \in DOMAIN kept |-> Str(kept[i])]

normalizePartnerIds(x) ==
  IF x.t # "array" THEN Arr(<<>>) ELSE Arr(NormalizedNonEmpty(x.v))

\* s.split(","): the pieces of s between the commas.
RECURSIVE SplitAtCommas(_)
SplitAtCommas(s) ==
  IF \A i \in DOMAIN s : s[i] # ","
    THEN <<s>>
    ELSE LET i == CHOOSE j \in DOMAIN s : s[j] = "," /\ \A k \in 1..(j - 1) : s[k] # ","
         IN <<SubSeq(s, 1, i - 1)>> \o SplitAtCommas(SubSeq(s, i + 1, Len(s)))

normalizeGenres(x) ==
  IF x.t = "array" THEN Arr(NormalizedNonEmpty(x.v))
  ELSE LET pieces == SplitAtCommas(normalizeString(x))
       IN Arr(NormalizedNonEmpty([i \in DOMAIN pieces |-> Str(pieces[i])]))

\* The ids makeEventId can hand out: "evt_" followed by the clock and a
\* random suffix, here one of two texts.
GeneratedIds == { <<"e", "v", "t", "_", "1">>, <<"e", "v", "t", "_", "2">> }

\* ensureEventId(e), made being what makeEventId() returns when it is called.
ensureEventId(e, made) ==
  LET id == normalizeString(e.id) IN IF id # <<>> THEN id ELSE made

\* Mutant: the events without an id are dropped.
withEventIdsDropping(list, made) ==
  SelectSeq(list, LAMBDA e : normalizeString(e.id) # <<>>)

\* withEventIds(list).next, made[i] being what makeEventId() returns for the
\* i-th event.
withEventIds(list, made) ==
  [i \in DOMAIN list |->
     IF normalizeString(list[i].id) # <<>> THEN list[i]
     ELSE [list[i] EXCEPT !.id = Str(made[i])]]

\* withEventIds(list).changed
withEventIdsChanged(list) == \E i \in DOMAIN list : normalizeString(list[i].id) = <<>>

\* Mutant: the events are ordered by date alone.
sortEventsCompareDateOnly(a, b) ==
  LET ad == normalizeString(a.date)
      bd == normalizeString(b.date)
  IN IF StrLess(ad, bd) THEN 0 - 1
     ELSE IF StrLess(bd, ad) THEN 1
     ELSE 0

\* The comparator of sortEvents.
sortEventsCompare(a, b) ==
  LET ad == normalizeString(a.date)
      bd == normalizeString(b.date)
  IN IF StrLess(ad, bd) THEN 0 - 1
     ELSE IF StrLess(bd, ad) THEN 1
     ELSE localeCompare(normalizeString(a.time), normalizeString(b.time))

\* Array.prototype.sort is stable: an element goes after the elements it
\* does not compare less than.
RECURSIVE sortEventsInsert(_, _)
sortEventsInsert(sorted, e) ==
  IF sorted = <<>> THEN <<e>>
  ELSE IF sortEventsCompare(e, Head(sorted)) < 0 THEN <<e>> \o sorted
  ELSE <<Head(sorted)>> \o sortEventsInsert(Tail(sorted), e)

RECURSIVE sortEvents(_)
sortEvents(list) ==
  IF list = <<>> THEN <<>>
  ELSE sortEventsInsert(sortEvents(SubSeq(list, 1, Len(list) - 1)), list[Len(list)])

\* path.basename(name): what follows the last "/", trailing "/" dropped.
RECURSIVE basename(_)
basename(name) ==
  IF name # <<>> /\ name[Len(name)] = "/" THEN basename(SubSeq(name, 1, Len(name) - 1))
  ELSE IF \A i \in DOMAIN name : name[i] # "/" THEN name
  ELSE LET i == CHOOSE j \in DOMAIN name : name[j] = "/" /\ \A k \in (j + 1)..Len(name) : name[k] # "/"
       IN SubSeq(name, i + 1, Len(name))

endsWith(s, suffix) ==
  Len(s) >= Len(suffix) /\ SubSeq(s, Len(s) - Len(suffix) + 1, Len(s)) = suffix

\* The allowlist of flyer file names.
okExt(safeName) ==
  LET lower == toLowerCase(safeName)
  IN \E ext \in { <<".", "p", "n", "g">>, <<".", "j", "p", "g">>, <<".", "j", "p", "e", "g">>, <<".", "w", "e", "b", "p">>, <<".", "g", "i", "f">> } : endsWith(lower, ext)

(***************************************************************************)
(* The maintainer service: its requests.                                   *)
(*                                                                         *)
(* disk holds the arrays of events.json, venues.json and partners.json and *)
(* the file names of the flyers directory, newest first.  response is the  *)
(* last response sent: the request it answers (to), the status code and    *)
(* the JSON body.                                                          *)
(***************************************************************************)
MaxStoredEvents == 2

\* What readBodyJson returns for a body that is no JSON.
InvalidBody == [t |-> "invalid"]

\* The object {}.
EmptyBody ==
  [t |-> "object", id |-> Undefined, title |-> Undefined, date |-> Undefined,
   time |-> Undefined, venueId |-> Undefined, partnerIds |-> Undefined,
   genres |-> Undefined, flyer |-> Undefined, link |-> Undefined,
   name |-> Undefined, filename |-> Undefined, dataBase64 |-> Undefined]

ClientIds == { Undefined, Str(<<"e", "1">>) }

\* The date and time of the bodies: two days, and two times of one day.
EventSlots ==
  { <<Str(<<"2", "0", "2", "5", "-", "0", "3", "-", "0", "2">>), Str(<<"7", ":", "0", "0", " ", "P", "M">>)>>, <<Str(<<"2", "0", "2", "5", "-", "0", "3", "-", "0", "1">>), Str(<<"1", "0", ":", "0", "0", " ", "P", "M">>)>> }

AddEventBodies ==
  { [EmptyBody EXCEPT !.id = i, !.title = Str(<<"G", "i", "g">>), !.date = s[1], !.time = s[2],
                      !.venueId = Str(<<"v", "1">>), !.genres = Str(<<"R", "o", "c", "k", ",", " ", "J", "a", "z", "z">>)] :
      i \in ClientIds, s \in EventSlots }
  \cup { [EmptyBody EXCEPT !.title = Str(<<" ">>), !.date = Str(<<"2", "0", "2", "5", "-", "0", "3", "-", "0", "1">>),
                           !.time = Str(<<"7", ":", "0", "0", " ", "P", "M">>), !.venueId = Str(<<"v", "1">>)] }

UpdateEventIds == { Str(<<"e", "1">>), Str(<<"e", "v", "t", "_", "1">>), Str(<<"e", "9">>) }

UpdateEventBodies ==
  { [EmptyBody EXCEPT !.id = i, !.title = Str(<<"G", "i", "g">>), !.date = s[1], !.time = s[2],
                      !.venueId = Str(<<"v", "1">>),
                      !.genres = Arr(<<Str(<<"R", "o", "c", "k">>), Str(<<" ", "J", "a", "z", "z">>)>>)] :
      i \in UpdateEventIds, s \in EventSlots }
  \cup { [EmptyBody EXCEPT !.id = Str(<<"e", "1">>)],
         [EmptyBody EXCEPT !.title = Str(<<"G", "i", "g">>)] }

DeleteEventBodies ==
  { [EmptyBody EXCEPT !.id = i] : i \in { Undefined, Str(<<"e", "1">>), Str(<<"e", "v", "t", "_", "1">>) } }

VenueBodies ==
  { [EmptyBody EXCEPT !.id = Str(<<" ", "v", "0">>), !.name = Str(<<"B", "a", "r", "n">>), !.link = Str(<<"b", ".", "e", "x", "a", "m", "p", "l", "e">>)],
    [EmptyBody EXCEPT !.name = Str(<<"H", "a", "l", "l">>), !.link = Str(<<"h", ".", "e", "x", "a", "m", "p", "l", "e">>)] }

PartnerBodies ==
  { [EmptyBody EXCEPT !.id = Str(<<"p", "1">>), !.name = Str(<<"C", "l", "u", "b">>), !.link = Str(<<"c", ".", "e", "x", "a", "m", "p", "l", "e">>)],
    [EmptyBody EXCEPT !.id = Str(<<"p", "1">>), !.name = Str(<<"P", "u", "b">>)] }

UploadBodies ==
  { [EmptyBody EXCEPT !.filename = Str(<<".", ".", "/", "a", ".", "P", "N", "G">>), !.dataBase64 = Str(<<"Q", "Q", "=", "=">>)],
    [EmptyBody EXCEPT !.filename = Str(<<"a", ".", "t", "x", "t">>), !.dataBase64 = Str(<<"Q", "Q", "=", "=">>)],
    [EmptyBody EXCEPT !.filename = Str(<<"a", ".", "p", "n", "g">>)] }

\* A venue of a venues.json and a partner of a partners.json written by
\* hand.
StoredVenue ==
  [id |-> Str(<<"v", "0">>), name |-> Str(<<"Y", "a", "r", "d">>), link |-> Str(<<"y", ".", "e", "x", "a", "m", "p", "l", "e">>)]

StoredPartner ==
  [id |-> Str(<<"p", "0">>), name |-> Str(<<"B", "a", "n", "d">>), link |-> Str(<<"n", ".", "e", "x", "a", "m", "p", "l", "e">>)]

\* An event of an events.json written before events had ids.
LegacyEvent ==
  [id |-> Undefined, title |-> Str(<<"O", "l", "d">>), date |-> Str(<<"2", "0", "2", "5", "-", "0", "3", "-", "0", "1">>),
   time |-> Str(<<"8", ":", "0", "0", " ", "P", "M">>), venueId |-> Str(<<"v", "1">>), partnerIds |-> Arr(<<>>),
   genres |-> Arr(<<>>), flyer |-> JsNull, link |-> JsNull]

InitialEventFiles == { <<>>, <<LegacyEvent>> }

\* What makeEventId() returns for each event of a list; it is not called
\* for an event that has an id, which is given the first id here.
MadeIds(list) ==
  { made \in [DOMAIN list -> GeneratedIds] :
      \A i \in DOMAIN list :
        normalizeString(list[i].id) # <<>> => made[i] = <<"e", "v", "t", "_", "1">> }

\* send(res, code, obj) in answer to a request.
send(to, code, obj) == [t |-> "sent", to |-> to, code |-> code, body |-> obj]

bad(to, msg) == send(to, 400, [ok |-> FALSE, error |-> msg])

InitService ==
  /\ pc = "listening"
  /\ arg = Undefined
  /\ ret = Undefined
  /\ events = <<>>
  /\ eventsKind = "array"
  /\ now = [year |-> 2025, month |-> 2, date |-> 1]
  /\ activeTab = "home"
  /\ filter = JsNull
  /\ jumpDate = Str(<<>>)
  /\ selectedGenres = AllGenres
  /\ searchQuery = Str(<<>>)
  /\ isGenreOpen = FALSE
  /\ filteredEvents = <<>>
  /\ filteredIsEvents = FALSE
  /\ grouped = <<>>
  /\ disk \in { [events |-> e, venues |-> <<StoredVenue>>,
                   partners |-> <<StoredPartner>>, flyers |-> <<>>] :
                  e \in InitialEventFiles }
  /\ response = Undefined
  /\ inflight = <<>>

Options ==
  /\ pc = "listening"
  /\ response' = send("OPTIONS", 200, [ok |-> TRUE])
  /\ UNCHANGED <<disk, inflight, appVars>>

GetHealth ==
  /\ pc = "listening"
  /\ response' = send("GET /api/health", 200, [ok |-> TRUE])
  /\ UNCHANGED <<disk, inflight, appVars>>

GetEvents ==
  /\ pc = "listening"
  /\ \E made \in MadeIds(disk.events) :
       LET next == withEventIds(disk.events, made)
       IN /\ disk' = IF withEventIdsChanged(disk.events)
                       THEN [disk EXCEPT !.events = next] ELSE disk
          /\ response' = send("GET /api/events", 200, [ok |-> TRUE, data |-> next])
  /\ UNCHANGED <<inflight, appVars>>

GetVenues ==
  /\ pc = "listening"
  /\ response' = send("GET /api/venues", 200, [ok |-> TRUE, data |-> disk.venues])
  /\ UNCHANGED <<disk, inflight, appVars>>

GetPartners ==
  /\ pc = "listening"
  /\ response' = send("GET /api/partners", 200, [ok |-> TRUE, data |-> disk.partners])
  /\ UNCHANGED <<disk, inflight, appVars>>

GetFlyers ==
  /\ pc = "listening"
  /\ response' = send("GET /api/flyers", 200, [ok |-> TRUE, data |-> disk.flyers])
  /\ UNCHANGED <<disk, inflight, appVars>>

\* fs.writeFile of a flyer: the file becomes the newest of the directory.
WithFlyer(flyers, name) == <<name>> \o SelectSeq(flyers, LAMBDA n : n # name)

PostFlyersUpload ==
  /\ pc = "listening"
  /\ \E body \in UploadBodies \cup {InvalidBody}, written \in BOOLEAN :
       LET to == "POST /api/flyers/upload"
           filenameRaw == normalizeString(body.filename)
           dataBase64 == normalizeString(body.dataBase64)
           safeName == basename(filenameRaw)
       IN IF body = InvalidBody
            THEN response' = bad(to, "Invalid JSON") /\ UNCHANGED disk
          ELSE IF filenameRaw = <<>> \/ dataBase64 = <<>>
            THEN /\ response' = bad(to, "Missing required fields: filename, dataBase64")
                 /\ UNCHANGED disk
          ELSE IF ~okExt(safeName)
            THEN /\ response' = bad(to, "Flyer must be an image file (.png, .jpg, .jpeg, .webp, .gif)")
                 /\ UNCHANGED disk
          ELSE IF written
            THEN /\ disk' = [disk EXCEPT !.flyers = WithFlyer(disk.flyers, safeName)]
                 /\ response' = send(to, 200, [ok |-> TRUE, path |-> <<"/", "f", "l", "y", "e", "r", "s", "/">> \o safeName])
          ELSE response' = bad(to, "Failed to write flyer to disk") /\ UNCHANGED disk
  /\ UNCHANGED <<inflight, appVars>>

\* The event POST /api/events and POST /api/events/update build of a body.
EventOfBody(body, id) ==
  [id |-> Str(id),
   title |-> Str(normalizeString(body.title)),
   date |-> Str(normalizeString(body.date)),
   time |-> Str(normalizeString(body.time)),
   venueId |-> Str(normalizeString(body.venueId)),
   partnerIds |-> normalizePartnerIds(body.partnerIds),
   genres |-> normalizeGenres(body.genres),
   flyer |-> normalizeOptionalString(body.flyer),
   link |-> normalizeOptionalString(body.link)]

\* !title || !date || !time || !venueId
MissingEventFields(body) ==
  \/ normalizeString(body.title) = <<>>
  \/ normalizeString(body.date) = <<>>
  \/ normalizeString(body.time) = <<>>
  \/ normalizeString(body.venueId) = <<>>

\* What POST /api/events writes and returns.
AddedEvents(existing, body, made, madeOne) ==
  sortEvents(<<EventOfBody(body, ensureEventId(body, madeOne))>> \o withEventIds(existing, made))

PostEvents ==
  /\ pc = "listening"
  /\ \E body \in AddEventBodies \cup {InvalidBody} :
       LET to == "POST /api/events"
       IN IF body = InvalidBody
            THEN response' = bad(to, "Invalid JSON") /\ UNCHANGED disk
          ELSE IF MissingEventFields(body)
            THEN /\ response' = bad(to, "Missing required fields: title, date, time, venueId")
                 /\ UNCHANGED disk
          ELSE \E made \in MadeIds(disk.events), madeOne \in GeneratedIds :
                 LET next == AddedEvents(disk.events, body, made, madeOne)
                 IN /\ Len(disk.events) < MaxStoredEvents
                    /\ disk' = [disk EXCEPT !.events = next]
                    /\ response' = send(to, 200, [ok |-> TRUE, data |-> next])
  /\ UNCHANGED <<inflight, appVars>>

\* existingWithIds.findIndex((e) => normalizeString(e.id) === id), 0 for -1.
findIndex(list, id) ==
  IF \E i \in DOMAIN list : normalizeString(list[i].id) = id
    THEN CHOOSE i \in DOMAIN list :
           /\ normalizeString(list[i].id) = id
           /\ \A j \in 1..(i - 1) : normalizeString(list[j].id) # id
    ELSE 0

\* What POST /api/events/update writes and returns when the event is found.
UpdatedEvents(existingWithIds, body, idx) ==
  sortEvents([existingWithIds EXCEPT
                ![idx] = EventOfBody(body, normalizeString(body.id))])

PostEventsUpdate ==
  /\ pc = "listening"
  /\ \E body \in UpdateEventBodies \cup {InvalidBody} :
       LET to == "POST /api/events/update"
       IN IF body = InvalidBody
            THEN response' = bad(to, "Invalid JSON") /\ UNCHANGED disk
          ELSE IF normalizeString(body.id) = <<>>
            THEN response' = bad(to, "Missing required field: id") /\ UNCHANGED disk
          ELSE IF MissingEventFields(body)
            THEN /\ response' = bad(to, "Missing required fields: title, date, time, venueId")
                 /\ UNCHANGED disk
          ELSE \E made \in MadeIds(disk.events) :
                 LET existingWithIds == withEventIds(disk.events, made)
                     idx == findIndex(existingWithIds, normalizeString(body.id))
                     next == UpdatedEvents(existingWithIds, body, idx)
                 IN IF idx = 0
                      THEN /\ disk' = IF withEventIdsChanged(disk.events)
                                        THEN [disk EXCEPT !.events = existingWithIds]
                                        ELSE disk
                           /\ response' = bad(to, "Event not found")
                      ELSE /\ disk' = [disk EXCEPT !.events = next]
                           /\ response' = send(to, 200, [ok |-> TRUE, data |-> next])
  /\ UNCHANGED <<inflight, appVars>>

PostEventsDelete ==
  /\ pc = "listening"
  /\ \E body \in DeleteEventBodies \cup {InvalidBody} :
       LET to == "POST /api/events/delete"
       IN IF body = InvalidBody
            THEN response' = bad(to, "Invalid JSON") /\ UNCHANGED disk
          ELSE IF normalizeString(body.id) = <<>>
            THEN response' = bad(to, "Missing required field: id") /\ UNCHANGED disk
          ELSE \E made \in MadeIds(disk.events) :
                 LET existingWithIds == withEventIds(disk.events, made)
                     next == SelectSeq(existingWithIds,
                                       LAMBDA e : normalizeString(e.id) # normalizeString(body.id))
                 IN /\ disk' = [disk EXCEPT !.events = next]
                    /\ response' = send(to, 200, [ok |-> TRUE, data |-> next])
  /\ UNCHANGED <<inflight, appVars>>

\* !id || !name || !link
MissingRecordFields(body) ==
  \/ normalizeString(body.id) = <<>>
  \/ normalizeString(body.name) = <<>>
  \/ normalizeString(body.link) = <<>>

\* Mutant: the new record is put first and the stored records are all kept.
UpsertedKeepingAll(existing, body) ==
  <<[id |-> Str(normalizeString(body.id)), name |-> Str(normalizeString(body.name)),
     link |-> Str(normalizeString(body.link))]>> \o existing

\* [{ id, name, link }, ...withoutDup]
Upserted(existing, body) ==
  LET id == normalizeString(body.id)
      withoutDup == SelectSeq(existing, LAMBDA v : normalizeString(v.id) # id)
  IN <<[id |-> Str(id), name |-> Str(normalizeString(body.name)),
        link |-> Str(normalizeString(body.link))]>> \o withoutDup

PostVenues ==
  /\ pc = "listening"
  /\ \E body \in VenueBodies \cup {InvalidBody} :
       LET to == "POST /api/venues"
           next == Upserted(disk.venues, body)
       IN IF body = InvalidBody
            THEN response' = bad(to, "Invalid JSON") /\ UNCHANGED disk
          ELSE IF MissingRecordFields(body)
            THEN /\ response' = bad(to, "Missing required fields: id, name, link")
                 /\ UNCHANGED disk
          ELSE /\ disk' = [disk EXCEPT !.venues = next]
               /\ response' = send(to, 200, [ok |-> TRUE, data |-> next])
  /\ UNCHANGED <<inflight, appVars>>

PostPartners ==
  /\ pc = "listening"
  /\ \E body \in PartnerBodies \cup {InvalidBody} :
       LET to == "POST /api/partners"
           next == Upserted(disk.partners, body)
       IN IF body = InvalidBody
            THEN response' = bad(to, "Invalid JSON") /\ UNCHANGED disk
          ELSE IF MissingRecordFields(body)
            THEN /\ response' = bad(to, "Missing required fields: id, name, link")
                 /\ UNCHANGED disk
          ELSE /\ disk' = [disk EXCEPT !.partners = next]
               /\ response' = send(to, 200, [ok |-> TRUE, data |-> next])
  /\ UNCHANGED <<inflight, appVars>>

\* Any other method and url.
NotFound ==
  /\ pc = "listening"
  /\ response' = send("other", 404, [ok |-> FALSE, error |-> "Not found"])
  /\ UNCHANGED <<disk, inflight, appVars>>

NextService ==
  \/ Options
  \/ GetHealth
  \/ GetEvents
  \/ GetVenues
  \/ GetPartners
  \/ GetFlyers
  \/ PostFlyersUpload
  \/ PostEvents
  \/ PostEventsUpdate
  \/ PostEventsDelete
  \/ PostVenues
  \/ PostPartners
  \/ NotFound

SpecService == InitService /\ [][NextService]_vars

(***************************************************************************)
(* C21: the ids of the stored events                                       *)
(***************************************************************************)
\* The requests that list, add, update and delete events.
EventRoutes ==
  { "GET /api/events", "POST /api/events", "POST /api/events/update",
    "POST /api/events/delete" }

\* The trimmed ids of a list of events, in order.
IdsOf(list) == [i \in DOMAIN list |-> normalizeString(list[i].id)]

NoEmptyId(list) == \A i \in DOMAIN list : IdsOf(list)[i] # <<>>

DistinctIds(list) ==
  \A i, j \in DOMAIN list : i # j => IdsOf(list)[i] # IdsOf(list)[j]

\* Every id of before is still the id of an event of after.
IdsKept(before, after) ==
  \A i \in DOMAIN before :
    IdsOf(before)[i] # <<>> => \E j \in DOMAIN after : IdsOf(after)[j] = IdsOf(before)[i]

\* C21: after every list, add, update or delete request that is answered
\* with ok: true, every stored event has a non-empty id, no two stored
\* events have the same id, and, unless the request is a delete, every id
\* stored before the request is still stored.
C21_StoredIdsAreUniqueAndStable ==
  [][(response' # response /\ response'.to \in EventRoutes /\ response'.body.ok)
       => /\ NoEmptyId(disk'.events)
          /\ DistinctIds(disk'.events)
          /\ (response'.to # "POST /api/events/delete" => IdsKept(disk.events, disk'.events))]_vars

(***************************************************************************)
(* C22: adding a venue or a partner                                        *)
(***************************************************************************)
\* The requests that add a venue or a partner, and the file each writes.
RecordRoutes == { <<"POST /api/venues", "venues">>, <<"POST /api/partners", "partners">> }

\* The request to is answered with ok: true in this step.
AnsweredOk(to) == response'.t = "sent" /\ response'.to = to /\ response'.body.ok

\* The records of list whose trimmed id is not id, in order.
WithOtherIds(list, id) == SelectSeq(list, LAMBDA v : normalizeString(v.id) # id)

\* C22 as amended: a successful add stores one record with trimmed fields
\* first, followed by the records stored before the request whose trimmed
\* id differs from its id, unchanged and in their order; the stored records
\* with its id are no longer stored.
C22_AddReplacesTheRecordsOfTheSameId ==
  [][\A r \in RecordRoutes :
       AnsweredOk(r[1]) =>
         /\ disk'[r[2]] # <<>>
         /\ Tail(disk'[r[2]]) = WithOtherIds(disk[r[2]], normalizeString(Head(disk'[r[2]]).id))
         /\ response'.body.data = disk'[r[2]]]_vars

\* C22 as stated: a successful add adds one record and leaves every record
\* stored before the request present and unchanged.
C22_AddIsAppendOnly ==
  [][\A r \in RecordRoutes :
       AnsweredOk(r[1]) =>
         /\ Len(disk'[r[2]]) = Len(disk[r[2]]) + 1
         /\ \A i \in DOMAIN disk[r[2]] : \E j \in DOMAIN disk'[r[2]] :
              disk'[r[2]][j] = disk[r[2]][i]]_vars

\* A venue add was answered with ok: true and the venue written by hand,
\* whose id the new venue has, is no longer stored.
C22_StoredVenueReplaced ==
  /\ response.t = "sent"
  /\ response.to = "POST /api/venues"
  /\ response.body.ok
  /\ \A i \in DOMAIN disk.venues : disk.venues[i] # StoredVenue
  /\ normalizeString(Head(disk.venues).id) = normalizeString(StoredVenue.id)

(***************************************************************************)
(* C23: the envelope of the responses                                      *)
(***************************************************************************)
\* C23: every response is {ok: true} with its payload, if it has one, in
\* the data field and nowhere else, or {ok: false, error}.
C23_ResponsesAreEnvelopes ==
  response.t = "sent" =>
    IF response.body.ok
      THEN DOMAIN response.body \subseteq {"ok", "data"}
      ELSE DOMAIN response.body = {"ok", "error"}

(***************************************************************************)
(* C24: the grouping conserves the events                                  *)
(***************************************************************************)
\* How many times e occurs in list.
Occurrences(list, e) == Cardinality({i \in DOMAIN list : list[i] = e})

\* C24: every input event whose normalized date is present and not before
\* today is in exactly one group, as many times as it is in the input, and
\* the date of that group is its normalized date; no two groups have the
\* same date; every event of a group is an input event.
C24_GroupingConservesEvents ==
  pc = "shown" =>
    /\ \A i \in DOMAIN filteredEvents :
         LET e == filteredEvents[i]
         IN DatedTodayOrLater(e) =>
              \E g \in DOMAIN grouped :
                /\ grouped[g].date = normalizeDateToYMD(e.date).v
                /\ Occurrences(grouped[g].events, e) = Occurrences(filteredEvents, e)
                /\ \A h \in DOMAIN grouped : h # g => Occurrences(grouped[h].events, e) = 0
    /\ \A g, h \in DOMAIN grouped : g # h => grouped[g].date # grouped[h].date
    /\ \A e \in GroupedEvents(grouped) : Occurrences(filteredEvents, e) > 0

\* An event dated "3/1/2025" and an event dated "2025-03-01" that is twice
\* in the input are shown in one group, the second of them twice.
C24_Witness ==
  /\ pc = "shown"
  /\ Occurrences(filteredEvents, EventApple) = 2
  /\ \E g \in DOMAIN grouped :
       /\ Occurrences(grouped[g].events, EventZebra) = 1
       /\ Occurrences(grouped[g].events, EventApple) = 2

(***************************************************************************)
(* C25: no past event is shown, whatever the clock                         *)
(***************************************************************************)
\* C25: the groups the home view shows hold no event dated before the
\* current local date.
C25_NoShownEventIsBeforeToday ==
  (pc = "shown" /\ activeTab = "home") =>
    \A e \in GroupedEvents(grouped) : ~DatedBeforeToday(e)

(***************************************************************************)
(* C26: the navigation state machine                                       *)
(***************************************************************************)
\* C26: a nav button that leads home and the date picker leave the filter
\* null; the home tab has a non-null filter after a step only if the step
\* is a venue or partner selection or the home tab had that filter before
\* the step; a step that changes the tab or the filter leaves the selected
\* genres and the search string as they were.
C26_HomeByNavHasNoFilter ==
  [][/\ ((NavClick /\ activeTab' = "home") \/ PickDate) => filter' = JsNull
     /\ (activeTab' = "home" /\ filter' # JsNull) =>
          (SelectVenue \/ SelectPartner \/ (activeTab = "home" /\ filter' = filter))
     /\ (activeTab' # activeTab \/ filter' # filter) =>
          (selectedGenres' = selectedGenres /\ searchQuery' = searchQuery)]_vars

\* The date picker was used, which led home with no filter, and a venue or
\* partner was selected afterwards: the home tab is shown with a filter.
C26_Witness ==
  /\ pc = "shown"
  /\ activeTab = "home"
  /\ filter # JsNull
  /\ jumpDate # Str(<<>>)

(***************************************************************************)
(* C27: normalizeDateToYMD is idempotent                                   *)
(***************************************************************************)
\* C27: a result of normalizeDateToYMD that is not null is a string of the
\* canonical shape, and normalizeDateToYMD maps every result, null too, to
\* itself.
C27_NormalizingTwiceIsNormalizingOnce ==
  pc = "returned" =>
    /\ ret # JsNull => (ret.t = "string" /\ HasCanonicalShape(ret.v))
    /\ normalizeDateToYMD(ret) = ret

\* A US date with white space around it has been normalized.
C27_Witness ==
  /\ pc = "returned"
  /\ arg = Str(<<" ", "3", "/", "1", "/", "2", "0", "2", "5", " ">>)
  /\ ret = Str(<<"2", "0", "2", "5", "-", "0", "3", "-", "0", "1">>)

(***************************************************************************)
(* Two add-event requests handled at the same time.                        *)
(*                                                                         *)
(* The handler of POST /api/events awaits the read of events.json, the     *)
(* write of events.json and nothing in between, so another handler can run *)
(* between its read and its write, and between its write and its response. *)
(* inflight[h] is the handler h: its body, its step, the event and the     *)
(* array it has built, and the response it has sent.                       *)
(***************************************************************************)
Handlers == {1, 2}

Received(body) ==
  [step |-> "received", body |-> body, nextEvent |-> Undefined, next |-> <<>>,
   answer |-> Undefined]

InitRace ==
  /\ pc = "listening"
  /\ arg = Undefined
  /\ ret = Undefined
  /\ events = <<>>
  /\ eventsKind = "array"
  /\ now = [year |-> 2025, month |-> 2, date |-> 1]
  /\ activeTab = "home"
  /\ filter = JsNull
  /\ jumpDate = Str(<<>>)
  /\ selectedGenres = AllGenres
  /\ searchQuery = Str(<<>>)
  /\ isGenreOpen = FALSE
  /\ filteredEvents = <<>>
  /\ filteredIsEvents = FALSE
  /\ grouped = <<>>
  /\ disk \in { [events |-> e, venues |-> <<StoredVenue>>,
                   partners |-> <<StoredPartner>>, flyers |-> <<>>] :
                  e \in InitialEventFiles }
  /\ response = Undefined
  /\ inflight \in [Handlers -> {Received(b) : b \in AddEventBodies \cup {InvalidBody}}]

\* The body is no JSON or lacks a required field: the handler answers
\* without reading events.json.
AddEventReject(h) ==
  /\ inflight[h].step = "received"
  /\ \/ inflight[h].body = InvalidBody
     \/ /\ inflight[h].body # InvalidBody
        /\ MissingEventFields(inflight[h].body)
  /\ response' = bad("POST /api/events",
                     IF inflight[h].body = InvalidBody THEN "Invalid JSON"
                     ELSE "Missing required fields: title, date, time, venueId")
  /\ inflight' = [inflight EXCEPT ![h].step = "answered", ![h].answer = response']
  /\ UNCHANGED <<disk, appVars>>

\* The handler builds its event, reads events.json and builds the array it
\* is going to write.
AddEventRead(h) ==
  /\ inflight[h].step = "received"
  /\ inflight[h].body # InvalidBody
  /\ ~MissingEventFields(inflight[h].body)
  /\ \E made \in MadeIds(disk.events), madeOne \in GeneratedIds :
       inflight' = [inflight EXCEPT
                      ![h].step = "read",
                      ![h].nextEvent = EventOfBody(inflight[h].body,
                                                   ensureEventId(inflight[h].body, madeOne)),
                      ![h].next = AddedEvents(disk.events, inflight[h].body, made, madeOne)]
  /\ UNCHANGED <<disk, response, appVars>>

\* writeJsonArray(EVENTS_PATH, next)
AddEventWrite(h) ==
  /\ inflight[h].step = "read"
  /\ disk' = [disk EXCEPT !.events = inflight[h].next]
  /\ inflight' = [inflight EXCEPT ![h].step = "written"]
  /\ UNCHANGED <<response, appVars>>

\* send(res, 200, { ok: true, data: next })
AddEventSend(h) ==
  /\ inflight[h].step = "written"
  /\ response' = send("POST /api/events", 200, [ok |-> TRUE, data |-> inflight[h].next])
  /\ inflight' = [inflight EXCEPT ![h].step = "answered", ![h].answer = response']
  /\ UNCHANGED <<disk, appVars>>

NextRace ==
  \E h \in Handlers :
    \/ AddEventReject(h)
    \/ AddEventRead(h)
    \/ AddEventWrite(h)
    \/ AddEventSend(h)

SpecRace == InitRace /\ [][NextRace]_vars

(***************************************************************************)
(* C28: concurrent add-event requests                                      *)
(***************************************************************************)
\* The handler h has answered with ok: true.
AcknowledgedAdd(h) == inflight[h].step = "answered" /\ inflight[h].answer.body.ok

\* C28: once both requests are answered with ok: true, the stored events
\* hold the event of each of them, twice if the two events are equal.
C28_AcknowledgedAddsAreStored ==
  (\A h \in Handlers : AcknowledgedAdd(h)) =>
    \A h \in Handlers :
      Occurrences(disk.events, inflight[h].nextEvent)
        >= Cardinality({g \in Handlers : inflight[g].nextEvent = inflight[h].nextEvent})

(***************************************************************************)
(* C29: what a request answered with ok: false leaves behind               *)
(***************************************************************************)
\* The request of this step is answered with ok: false.
AnsweredNotOk == response'.t = "sent" /\ ~response'.body.ok

\* after is before with an id given to the events that had none.
IdsFilledIn(before, after) ==
  /\ Len(after) = Len(before)
  /\ \A i \in DOMAIN before :
       IF normalizeString(before[i].id) # <<>>
         THEN after[i] = before[i]
         ELSE /\ normalizeString(after[i].id) # <<>>
              /\ after[i] = [before[i] EXCEPT !.id = after[i].id]

\* C29 as amended: a request answered with ok: false leaves the stored
\* venues and partners as they were, and the stored events too, except that
\* an update answered "Event not found" has given an id to every stored
\* event that had none.
C29_FailedRequestsOnlyFillInIds ==
  [][AnsweredNotOk =>
       /\ disk'.venues = disk.venues
       /\ disk'.partners = disk.partners
       /\ \/ disk'.events = disk.events
          \/ /\ response'.to = "POST /api/events/update"
             /\ response'.body.error = "Event not found"
             /\ IdsFilledIn(disk.events, disk'.events)]_vars

\* C29 as stated: a request answered with ok: false leaves the stored
\* events, venues and partners as they were.
C29_FailedRequestsChangeNothing ==
  [][AnsweredNotOk =>
       /\ disk'.events = disk.events
       /\ disk'.venues = disk.venues
       /\ disk'.partners = disk.partners]_vars

\* An update was answered "Event not found" and the event stored without
\* an id has one.
C29_Witness ==
  /\ response.t = "sent"
  /\ response.to = "POST /api/events/update"
  /\ ~response.body.ok
  /\ response.body.error = "Event not found"
  /\ \E i \in DOMAIN disk.events :
       /\ disk.events[i].title = LegacyEvent.title
       /\ normalizeString(disk.events[i].id) # <<>>

(***************************************************************************)
(* C30: the order of the stored events                                     *)
(***************************************************************************)
\* The events of list are in ascending order of their trimmed dates, and
\* those of one date in ascending order of their trimmed times, the order
\* of the times being that of String.prototype.localeCompare.
OrderedByDateThenTime(list) ==
  \A i, j \in DOMAIN list :
    i < j =>
      /\ ~LexLess(normalizeString(list[j].date), normalizeString(list[i].date))
      /\ normalizeString(list[i].date) = normalizeString(list[j].date)
           => localeCompare(normalizeString(list[i].time), normalizeString(list[j].time)) <= 0

\* C30: the events a successful add or update request returns are the
\* events it has written, they are ordered by trimmed date and then by
\* trimmed time, and a successful update leaves the number of stored events
\* unchanged.
C30_WrittenEventsAreOrdered ==
  [][(AnsweredOk("POST /api/events") \/ AnsweredOk("POST /api/events/update")) =>
       /\ response'.body.data = disk'.events
       /\ OrderedByDateThenTime(disk'.events)
       /\ AnsweredOk("POST /api/events/update") => Len(disk'.events) = Len(disk.events)]_vars

\* A successful update has left two stored events of one date with
\* different times.
C30_Witness ==
  /\ response.t = "sent"
  /\ response.to = "POST /api/events/update"
  /\ response.body.ok
  /\ Len(disk.events) = 2
  /\ normalizeString(disk.events[1].date) = normalizeString(disk.events[2].date)
  /\ normalizeString(disk.events[1].time) # normalizeString(disk.events[2].time)

====
